---- MODULE Spec2Model ----
(***************************************************************************)
(* A model of the swap submission pipeline of the interface:               *)
(*   useSwapCallArguments  builds the candidate swap calls,                *)
(*   useSwapCallback       gates the callback (INVALID / LOADING / VALID), *)
(*   onSwap                estimates gas for every candidate, probes the   *)
(*                         failed ones with a static call, selects one     *)
(*                         and sends it, registering the transaction.      *)
(* Strings built from templates are sequences of their pieces; optional    *)
(* values are sequences of length 0 or 1, optional strings use Null.       *)
(***************************************************************************)
EXTENDS Integers, Sequences, FiniteSets, TLC

VARIABLES ctx, hook, swapCalls, pc, cand, order, sentTxs, response,
          addedTransactions, consoleErrors, outcome

swapVars == <<ctx, hook, swapCalls, pc, cand, order, sentTxs, response,
              addedTransactions, consoleErrors, outcome>>

\* the state of one call of w3IsTradeBetter
VARIABLES tradeA, tradeB, minimumDelta, cmpPc, priceRequests,
          executionPriceA, executionPriceB, cmpResult

cmpVars == <<tradeA, tradeB, minimumDelta, cmpPc, priceRequests,
             executionPriceA, executionPriceB, cmpResult>>

\* the state of one use of the functions of utils/trades
VARIABLES utilTrade, utilPc, breakdown, w3slippage, w3breakdown, impactGiven,
          severity

utilVars == <<utilTrade, utilPc, breakdown, w3slippage, w3breakdown, impactGiven,
              severity>>

\* the state of one use of useERC20Permit: its inputs, the signature it keeps,
\* what it returns, the signature request in flight
VARIABLES permitCtx, signatureData, permit, signing, contextChanges

permitVars == <<permitCtx, signatureData, permit, signing, contextChanges>>

\* the state of one use of useClientSideV3Trade: its inputs, the routes, the
\* call data and the quotes, the result, the promises in flight
VARIABLES v3in, routes, routesLoading, callParams, calldataPromises, quotesResults,
          v3result, tradePromises, inputChanges, v3mounted

v3Vars == <<v3in, routes, routesLoading, callParams, calldataPromises, quotesResults,
            v3result, tradePromises, inputChanges, v3mounted>>

\* useRoutingAPITrade
VARIABLES rtIn, rtQuery, localBlockNumber, tradeResult, rtPromises, rtMounted

routingVars == <<rtIn, rtQuery, localBlockNumber, tradeResult, rtPromises, rtMounted>>

\* the effect of useERC20PermitFromTrade
VARIABLES apIn, amountToApprove, apPromises, apMounted

approveVars == <<apIn, amountToApprove, apPromises, apMounted>>

\* the effect of SwapModalHeader
VARIABLES hdIn, hdAmount, hdPromises, hdMounted

headerVars == <<hdIn, hdAmount, hdPromises, hdMounted>>

\* the position effect of useV3DerivedMintInfo
VARIABLES mintIn, position, positionPromises, mintMounted

mintVars == <<mintIn, position, positionPromises, mintMounted>>

\* the renders with changed inputs of the hook in use
VARIABLES hookChanges

hookVars == <<routingVars, approveVars, headerVars, mintVars, hookChanges>>

vars == <<swapVars, cmpVars, utilVars, permitVars, v3Vars, hookVars>>

\* what a step of one part leaves alone
notSwapVars == <<cmpVars, utilVars, permitVars, v3Vars, hookVars>>

notCmpVars == <<swapVars, utilVars, permitVars, v3Vars, hookVars>>

notUtilVars == <<swapVars, cmpVars, permitVars, v3Vars, hookVars>>

notPermitVars == <<swapVars, cmpVars, utilVars, v3Vars, hookVars>>

notV3Vars == <<swapVars, cmpVars, utilVars, permitVars, hookVars>>

notHookVars == <<swapVars, cmpVars, utilVars, permitVars, v3Vars>>

(* ------------------------------------------------------------------ *)
(* Bounds of the model                                                 *)
(* ------------------------------------------------------------------ *)

\* how many different gas estimates the provider may answer with
MaxGasChoices == 2

\* how many times the inputs of useERC20Permit change
MaxContextChanges == 2

\* how many times the inputs of useClientSideV3Trade change
MaxInputChanges == 1

\* bound on the signature requests the wallet has not answered yet
MaxSigningRequests == 2

\* how many times the inputs of one of the other hooks change
MaxHookChanges == 2

GasValues == {50000 * k + 1 : k \in 1..MaxGasChoices}

(* ------------------------------------------------------------------ *)
(* Values                                                              *)
(* ------------------------------------------------------------------ *)

Null == "null"

None == <<>>

Some(x) == <<x>>

IsSome(o) == Len(o) > 0

Get(o) == o[1]

\* enum SwapCallbackState
INVALID == "INVALID"

LOADING == "LOADING"

VALID == "VALID"

EXACT_INPUT == "EXACT_INPUT"

EXACT_OUTPUT == "EXACT_OUTPUT"

v1 == "v1"

v2 == "v2"

\* the provider's error code of a user rejection
USER_REJECTED == 4001

Accounts == {"0xA11ce", "0xB0b"}

Names == {"bob.eth"}

\* hex strings, as sequences of characters
HexZero == <<"0", "x", "0">>

HexAmount == <<"0", "x", "d", "e">>

\* the trades the hook may be given: W3Trade, reduced to what the hook reads
Trades ==
  { [tradeType |-> tt, etherIn |-> ei, etherOut |-> FALSE,
     inputSymbol |-> IF ei THEN "ETH" ELSE "TKA", outputSymbol |-> "TKB",
     inputAmount |-> 1000, outputAmount |-> 997] :
      tt \in {EXACT_INPUT, EXACT_OUTPUT}, ei \in BOOLEAN }

AllowedSlippages == {50}

Deadlines == {1700000000}

\* what a failing static call may report as callError.reason
Reasons == { "UniswapV2Router: INSUFFICIENT_OUTPUT_AMOUNT",
             "UniswapV2Router: EXCESSIVE_INPUT_AMOUNT",
             "TransferHelper: TRANSFER_FROM_FAILED",
             "undefined" }

\* what the provider may answer a send with
Hashes == {"0xhash"}

SendErrors == { [code |-> Some(USER_REJECTED), message |-> "User denied transaction signature"],
                [code |-> Some(0 - 32000), message |-> "insufficient funds"],
                [code |-> None, message |-> "network error"] }

(* ------------------------------------------------------------------ *)
(* Helpers of ../utils (not among the sources; modelled from the spec)  *)
(* ------------------------------------------------------------------ *)

\* isZero(hexNumberString): /^0x0*$/
isZero(value) ==
  /\ Len(value) >= 2
  /\ value[1] = "0"
  /\ value[2] = "x"
  /\ \A i \in 3..Len(value) : value[i] = "0"

\* calculateGasMargin: the estimate increased by the safety margin (10%)
calculateGasMargin(gasEstimate) == (gasEstimate * (10000 + 1000)) \div 10000

isAddress(value) == value \in Accounts

\* shortenAddress: the first and the last characters of the address
shortenAddress(address) == IF address = "0xA11ce" THEN "0xA1...ce" ELSE "0xB0...0b"

\* toSignificant(amount, 3): the amount as a decimal string of 3 significant digits
toSignificant(amount, digits) ==
  IF amount = 1000 THEN "1000" ELSE IF amount = 997 THEN "997" ELSE "0"

\* useENS(nameOrAddress).address
useENS(c) ==
  IF c.recipientAddressOrName = Null THEN Null
  ELSE IF isAddress(c.recipientAddressOrName) THEN c.recipientAddressOrName
  ELSE c.ensAddress

\* w3SwapCallParameters(trade, options): the router method, arguments and value
w3SwapCallParameters(trade, options) ==
  [ methodName |->
      IF trade.tradeType = EXACT_INPUT
        THEN IF trade.etherIn
               THEN IF options.feeOnTransfer
                      THEN "swapExactETHForTokensSupportingFeeOnTransferTokens"
                      ELSE "swapExactETHForTokens"
               ELSE IF options.feeOnTransfer
                      THEN "swapExactTokensForTokensSupportingFeeOnTransferTokens"
                      ELSE "swapExactTokensForTokens"
        ELSE IF trade.etherIn THEN "swapETHForExactTokens"
                              ELSE "swapTokensForExactTokens",
    args |-> <<trade.inputAmount, trade.outputAmount, options.allowedSlippage,
               options.recipient, options.deadline>>,
    value |-> IF trade.etherIn THEN HexAmount ELSE HexZero ]

\* v1SwapArguments(trade, options)
v1SwapArguments(trade, options) ==
  [ methodName |->
      IF trade.tradeType = EXACT_INPUT
        THEN IF trade.etherIn THEN "ethToTokenTransferInput" ELSE "tokenToTokenTransferInput"
        ELSE IF trade.etherIn THEN "ethToTokenTransferOutput" ELSE "tokenToTokenTransferOutput",
    args |-> <<trade.inputAmount, trade.outputAmount, options.allowedSlippage,
               options.recipient, options.deadline>>,
    value |-> IF trade.etherIn THEN HexAmount ELSE HexZero ]

(* ------------------------------------------------------------------ *)
(* useSwapCallArguments                                                *)
(* ------------------------------------------------------------------ *)

\* a variant that takes the name for the recipient without resolving it
Recipient_Unresolved(c) ==
  IF c.recipientAddressOrName = Null THEN c.account ELSE c.recipientAddressOrName

\* const recipient = recipientAddressOrName === null ? account : recipientAddress
Recipient(c) == IF c.recipientAddressOrName = Null THEN c.account ELSE useENS(c)

\* new Decimal(allowedSlippage).div(W3BIPS_BASE).toString()
SlippageString(allowedSlippage) == <<allowedSlippage, "/", 10000>>

\* a variant that does not look at the recipient
InputsIncomplete_NoRecipient(c) ==
  \/ ~IsSome(c.trade) \/ ~c.library \/ c.account = Null
  \/ ~IsSome(c.chainId) \/ ~IsSome(c.deadline)

\* if (!trade || !recipient || !library || !account || !tradeVersion || !chainId || !deadline)
InputsIncomplete(c) ==
  \/ ~IsSome(c.trade) \/ Recipient(c) = Null \/ ~c.library \/ c.account = Null
  \/ ~IsSome(c.chainId) \/ ~IsSome(c.deadline)

\* tradeVersion === Version.v2 ? getRouterContract(chainId, library, account) : v1Exchange
SwapContract(c) ==
  IF c.toggledVersion = v2 THEN "router"
  ELSE IF c.v1Exchange THEN "v1Exchange" ELSE Null

\* the options a swap method is built with
SwapOptions(c, feeOnTransfer) ==
  [ feeOnTransfer |-> feeOnTransfer,
    allowedSlippage |-> SlippageString(c.allowedSlippage),
    recipient |-> Recipient(c),
    deadline |-> Get(c.deadline) ]

\* a variant that appends the fee-on-transfer variant for every trade type
SwapMethods_AlwaysFeeOnTransfer(c) ==
  LET trade == Get(c.trade)
  IN IF c.toggledVersion = v2
       THEN <<[isPromise |-> TRUE, options |-> SwapOptions(c, FALSE),
               parameters |-> w3SwapCallParameters(trade, SwapOptions(c, FALSE))],
              [isPromise |-> TRUE, options |-> SwapOptions(c, TRUE),
               parameters |-> w3SwapCallParameters(trade, SwapOptions(c, TRUE))]>>
       ELSE <<[isPromise |-> FALSE, options |-> SwapOptions(c, FALSE),
               parameters |-> v1SwapArguments(trade, SwapOptions(c, FALSE))]>>

\* the switch on the trade version: the swap methods in the order they are
\* pushed, each with the options it was built with
SwapMethods(c) ==
  LET trade == Get(c.trade)
  IN IF c.toggledVersion = v2
       THEN <<[isPromise |-> TRUE, options |-> SwapOptions(c, FALSE),
               parameters |-> w3SwapCallParameters(trade, SwapOptions(c, FALSE))]>>
            \o (IF trade.tradeType = EXACT_INPUT
                  THEN <<[isPromise |-> TRUE, options |-> SwapOptions(c, TRUE),
                          parameters |-> w3SwapCallParameters(trade, SwapOptions(c, TRUE))]>>
                  ELSE <<>>)
       ELSE <<[isPromise |-> FALSE, options |-> SwapOptions(c, FALSE),
               parameters |-> v1SwapArguments(trade, SwapOptions(c, FALSE))]>>

\* the candidate calls, in the order the builder pushes them
useSwapCallArguments(c) ==
  IF InputsIncomplete(c) THEN <<>>
  ELSE IF SwapContract(c) = Null THEN <<>>
  ELSE [i \in 1..Len(SwapMethods(c)) |->
          [parameters |-> SwapMethods(c)[i].parameters,
           isPromise |-> SwapMethods(c)[i].isPromise,
           options |-> SwapMethods(c)[i].options,
           contract |-> SwapContract(c)]]

(* ------------------------------------------------------------------ *)
(* useSwapCallback                                                     *)
(* ------------------------------------------------------------------ *)

\* a variant that offers the callback only when there are candidate calls
useSwapCallback_NeedsCalls(c) ==
  IF ~IsSome(c.trade) \/ ~c.library \/ c.account = Null \/ ~IsSome(c.chainId)
     \/ Len(useSwapCallArguments(c)) = 0
    THEN [state |-> INVALID, callback |-> FALSE, error |-> "Missing dependencies"]
  ELSE IF Recipient(c) = Null
    THEN IF c.recipientAddressOrName # Null
           THEN [state |-> INVALID, callback |-> FALSE, error |-> "Invalid recipient"]
           ELSE [state |-> LOADING, callback |-> FALSE, error |-> Null]
  ELSE [state |-> VALID, callback |-> TRUE, error |-> Null]

useSwapCallback(c) ==
  IF ~IsSome(c.trade) \/ ~c.library \/ c.account = Null \/ ~IsSome(c.chainId)
    THEN [state |-> INVALID, callback |-> FALSE, error |-> "Missing dependencies"]
  ELSE IF Recipient(c) = Null
    THEN IF c.recipientAddressOrName # Null
           THEN [state |-> INVALID, callback |-> FALSE, error |-> "Invalid recipient"]
           ELSE [state |-> LOADING, callback |-> FALSE, error |-> Null]
  ELSE [state |-> VALID, callback |-> TRUE, error |-> Null]

(* ------------------------------------------------------------------ *)
(* onSwap: the pure parts                                              *)
(* ------------------------------------------------------------------ *)

\* const options = !value || isZero(value) ? {} : { value }
EstimateOptions(value) ==
  IF Len(value) = 0 \/ isZero(value) THEN None ELSE Some(value)

\* a variant that knows only one of the two slippage reasons
errorMessage_OneReason(reason) ==
  IF reason = "UniswapV2Router: INSUFFICIENT_OUTPUT_AMOUNT"
    THEN <<"This transaction will not succeed either due to price movement or fee on transfer. Try increasing your slippage tolerance.">>
    ELSE <<"The transaction cannot succeed due to error: ", reason,
           ". This is probably an issue with one of the tokens you are swapping.">>

\* the message of the error a reverting static call is turned into
errorMessage(reason) ==
  IF reason \in { "UniswapV2Router: INSUFFICIENT_OUTPUT_AMOUNT",
                  "UniswapV2Router: EXCESSIVE_INPUT_AMOUNT" }
    THEN <<"This transaction will not succeed either due to price movement or fee on transfer. Try increasing your slippage tolerance.">>
    ELSE <<"The transaction cannot succeed due to error: ", reason,
           ". This is probably an issue with one of the tokens you are swapping.">>

\* a variant that takes the successful static call for an estimate
UnexpectedSuccess_AsEstimate(call) == [call |-> call, gasEstimate |-> 0]

\* the result of a static call that succeeds after the gas estimate failed
UnexpectedSuccess(call) ==
  [call |-> call, error |-> <<"Unexpected issue with estimating the gas. Please try again.">>]

\* .then(gasEstimate => ({ call, gasEstimate }))
SuccessfulCall(call, gasEstimate) == [call |-> call, gasEstimate |-> gasEstimate]

\* .catch(callError => ({ call, error: new Error(errorMessage) }))
FailedCall(call, reason) == [call |-> call, error |-> errorMessage(reason)]

\* 'gasEstimate' in el
HasGasEstimate(el) == "gasEstimate" \in DOMAIN el

\* 'error' in el
HasError(el) == "error" \in DOMAIN el

\* a variant that keeps the results in the order they settled in
PromiseAll_SettleOrder(results, settled) ==
  [k \in 1..Len(results) |-> Get(results[settled[k]])]

\* Promise.all: the results in the order of the promises, whatever order
\* they settled in
PromiseAll(results, settled) == [i \in 1..Len(results) |-> Get(results[i])]

\* a variant that takes the last such element instead of the first
successfulEstimation_Last(list) ==
  LET ok == { ix \in 1..Len(list) :
                /\ HasGasEstimate(list[ix])
                /\ (ix = Len(list) \/ HasGasEstimate(list[ix + 1])) }
  IN IF ok = {} THEN 0 ELSE CHOOSE ix \in ok : \A other \in ok : ix >= other

\* a variant that does not look at the next element
successfulEstimation_AnySuccess(list) ==
  LET ok == { ix \in 1..Len(list) : HasGasEstimate(list[ix]) }
  IN IF ok = {} THEN 0 ELSE CHOOSE ix \in ok : \A other \in ok : ix <= other

\* estimatedCalls.find(...): the index of the first element that has a gas
\* estimate and is the last one or is followed by one that has a gas
\* estimate too; 0 when there is none
successfulEstimation(list) ==
  LET ok == { ix \in 1..Len(list) :
                /\ HasGasEstimate(list[ix])
                /\ (ix = Len(list) \/ HasGasEstimate(list[ix + 1])) }
  IN IF ok = {} THEN 0 ELSE CHOOSE ix \in ok : \A other \in ok : ix <= other

\* estimatedCalls.filter(call => 'error' in call)
errorCalls(list) == SelectSeq(list, HasError)

\* a variant that throws the first captured error
NoEstimationError_First(list) ==
  IF Len(errorCalls(list)) > 0
    THEN errorCalls(list)[1].error
    ELSE <<"Unexpected error. Please contact support: none of the calls threw an error">>

\* what onSwap throws when no estimation is successful
NoEstimationError(list) ==
  IF Len(errorCalls(list)) > 0
    THEN errorCalls(list)[Len(errorCalls(list))].error
    ELSE <<"Unexpected error. Please contact support: none of the calls threw an error">>

\* a variant that attaches the value whatever it is
SendOptions_AlwaysValue(value, gasEstimate, account) ==
  [ gasLimit |-> calculateGasMargin(gasEstimate),
    value |-> Some(value),
    from |-> account ]

\* { gasLimit: calculateGasMargin(gasEstimate),
\*   ...(value && !isZero(value) ? { value, from: account } : { from: account }) }
SendOptions(value, gasEstimate, account) ==
  [ gasLimit |-> calculateGasMargin(gasEstimate),
    value |-> IF Len(value) > 0 /\ ~isZero(value) THEN Some(value) ELSE None,
    from |-> account ]

\* contract[methodName](...args, options)
Transaction(el, account) ==
  [ contract |-> el.call.contract,
    methodName |-> el.call.parameters.methodName,
    args |-> el.call.parameters.args,
    options |-> SendOptions(el.call.parameters.value, el.gasEstimate, account) ]

\* a variant that names the recipient only when a recipient was given
Summary_GivenRecipient(c) ==
  LET trade == Get(c.trade)
      base == <<"Swap ", toSignificant(trade.inputAmount, 3), " ", trade.inputSymbol,
                " for ", toSignificant(trade.outputAmount, 3), " ", trade.outputSymbol>>
      withRecipient ==
        IF c.recipientAddressOrName = Null THEN base
        ELSE base \o <<" to ",
                       IF isAddress(c.recipientAddressOrName)
                         THEN shortenAddress(c.recipientAddressOrName)
                         ELSE c.recipientAddressOrName>>
  IN IF c.tradeVersion = v2 THEN withRecipient ELSE withRecipient \o <<" on ", "V1">>

\* the summary the transaction is registered with
Summary(c) ==
  LET trade == Get(c.trade)
      base == <<"Swap ", toSignificant(trade.inputAmount, 3), " ", trade.inputSymbol,
                " for ", toSignificant(trade.outputAmount, 3), " ", trade.outputSymbol>>
      withRecipient ==
        IF Recipient(c) = c.account THEN base
        ELSE base \o <<" to ",
                       IF c.recipientAddressOrName # Null /\ isAddress(c.recipientAddressOrName)
                         THEN shortenAddress(c.recipientAddressOrName)
                         ELSE c.recipientAddressOrName>>
  IN IF c.tradeVersion = v2 THEN withRecipient ELSE withRecipient \o <<" on ", "V1">>

\* the error the catch of the send throws
SendFailure(error) ==
  IF error.code = Some(USER_REJECTED)
    THEN <<"Transaction rejected.">>
    ELSE <<"Swap failed: ", error.message>>

\* a variant that logs every failure
SendFailureLogged_Always(error) == TRUE

\* whether the catch of the send logs the error
SendFailureLogged(error) == error.code # Some(USER_REJECTED)

(* ------------------------------------------------------------------ *)
(* w3IsTradeBetter: the pure parts                                     *)
(* ------------------------------------------------------------------ *)

\* a Decimal, as an exact fraction n / d with d > 0
Dec(n, d) == [n |-> n, d |-> d]

RECURSIVE GCD(_, _)
GCD(a, b) == IF b = 0 THEN a ELSE GCD(b, a % b)

\* Decimal.lessThan, on the least common denominator
DecLessThan(x, y) ==
  LET l == (x.d \div GCD(x.d, y.d)) * y.d
  IN  x.n * (l \div x.d) < y.n * (l \div y.d)

\* Decimal.equals
DecEquals(x, y) == x.n * y.d = y.n * x.d

\* Decimal.add
DecAdd(x, y) == Dec(x.n * y.d + y.n * x.d, x.d * y.d)

\* Decimal.mul
DecMul(x, y) == Dec(x.n * y.n, x.d * y.d)

\* W3_ZERO_PERCENT and W3_ONE_HUNDRED_PERCENT of ../constants
W3_ZERO_PERCENT == Dec(0, 1)

W3_ONE_HUNDRED_PERCENT == Dec(1, 1)

\* the currencies and the trades w3IsTradeBetter may be given
Currencies == {"TKA", "TKB", "TKC"}

ComparedTrades ==
  { t \in [ tradeType : {EXACT_INPUT, EXACT_OUTPUT},
            inputCurrency : {"TKA", "TKB"},
            outputCurrency : {"TKB", "TKC"},
            inputAmount : {1000, 2000},
            outputAmount : {997, 1994, 2100} ] :
      t.inputCurrency # t.outputCurrency }

\* the minimum deltas w3IsTradeBetter may be given
Deltas == {Dec(0, 1), Dec(1, 100), Dec(6, 100)}

\* currencyEquals of ../polywrap/utils
w3currencyEquals(currencyA, currencyB) == currencyA = currencyB

\* w3TradeExecutionPrice of ../polywrap/tradeWrappers: output per input
w3TradeExecutionPrice(trade) == Dec(trade.outputAmount, trade.inputAmount)

\* a boolean, undefined, or an error, as w3IsTradeBetter ends with
Return(value) == [kind |-> "return", value |-> value]

Throw(message) == [kind |-> "throw", value |-> message]

Bool(b) == IF b THEN "true" ELSE "false"

\* a variant with the two answers exchanged
PresenceResult_Exchanged(a, b) ==
  IF IsSome(a) /\ ~IsSome(b) THEN Some(Return("true"))
  ELSE IF IsSome(b) /\ ~IsSome(a) THEN Some(Return("false"))
  ELSE IF ~IsSome(a) \/ ~IsSome(b) THEN Some(Return("undefined"))
  ELSE None

\* the three returns on the presence of the trades; None when both are there
PresenceResult(a, b) ==
  IF IsSome(a) /\ ~IsSome(b) THEN Some(Return("false"))
  ELSE IF IsSome(b) /\ ~IsSome(a) THEN Some(Return("true"))
  ELSE IF ~IsSome(a) \/ ~IsSome(b) THEN Some(Return("undefined"))
  ELSE None

\* a variant that does not compare the trade types
NotComparable_NoTradeType(a, b) ==
  \/ ~w3currencyEquals(a.inputCurrency, b.inputCurrency)
  \/ ~w3currencyEquals(b.outputCurrency, b.outputCurrency)

\* the condition under which 'Trades are not comparable' is thrown; its
\* third disjunct compares tradeB's output currency with itself
NotComparable(a, b) ==
  \/ a.tradeType # b.tradeType
  \/ ~w3currencyEquals(a.inputCurrency, b.inputCurrency)
  \/ ~w3currencyEquals(b.outputCurrency, b.outputCurrency)

\* a variant that compares with lessThanOrEqualTo
IsBetterByPrice_OrEqual(priceA, priceB, delta) ==
  IF DecEquals(delta, W3_ZERO_PERCENT)
    THEN ~DecLessThan(priceB, priceA)
    ELSE ~DecLessThan(priceB, DecMul(priceA, DecAdd(delta, W3_ONE_HUNDRED_PERCENT)))

\* a variant that leaves the delta out
IsBetterByPrice_NoDelta(priceA, priceB, delta) == DecLessThan(priceA, priceB)

\* the comparison of the two execution prices
IsBetterByPrice(priceA, priceB, delta) ==
  IF DecEquals(delta, W3_ZERO_PERCENT)
    THEN DecLessThan(priceA, priceB)
    ELSE DecLessThan(DecMul(priceA, DecAdd(delta, W3_ONE_HUNDRED_PERCENT)), priceB)

\* w3IsTradeBetter as a function of its arguments
w3IsTradeBetter(a, b, delta) ==
  IF IsSome(PresenceResult(a, b)) THEN Get(PresenceResult(a, b))
  ELSE IF NotComparable(Get(a), Get(b)) THEN Throw("Trades are not comparable")
  ELSE Return(Bool(IsBetterByPrice(w3TradeExecutionPrice(Get(a)),
                                   w3TradeExecutionPrice(Get(b)), delta)))

\* no call of w3IsTradeBetter
CmpIdle ==
  /\ tradeA = None
  /\ tradeB = None
  /\ minimumDelta = W3_ZERO_PERCENT
  /\ cmpPc = "idle"
  /\ priceRequests = <<>>
  /\ executionPriceA = None
  /\ executionPriceB = None
  /\ cmpResult = None

(* ------------------------------------------------------------------ *)
(* utils/trades: price breakdown and warning severity                  *)
(* ------------------------------------------------------------------ *)

\* the same fraction in lowest terms (Decimal and Fraction are compared by
\* value; products are kept in lowest terms so that they stay in range)
Norm(x) ==
  LET g == GCD(IF x.n < 0 THEN -x.n ELSE x.n, x.d)
  IN  IF g = 0 THEN x ELSE Dec(x.n \div g, x.d \div g)

\* Decimal.sub, Fraction.subtract
DecSub(x, y) ==
  LET l == (x.d \div GCD(x.d, y.d)) * y.d
  IN  Norm(Dec(x.n * (l \div x.d) - y.n * (l \div y.d), l))

\* Fraction.multiply(raw).quotient: the integer part
Quotient(x, raw) == (x.n * raw) \div x.d

\* Decimal.mul(amount).toFixed(0): the nearest integer, halves upwards
ToFixed0(x, amount) ==
  ((x.n * amount) \div x.d) + (IF 2 * ((x.n * amount) % x.d) >= x.d THEN 1 ELSE 0)

\* BASE_FEE and W3BASE_FEE: 30 / 10000
W3BASE_FEE == Dec(30, 10000)

\* ONE_HUNDRED_PERCENT and W3ONE_HUNDRED_PERCENT: 10000 / 10000
W3ONE_HUNDRED_PERCENT == Dec(10000, 10000)

\* INPUT_FRACTION_AFTER_FEE and W3INPUT_FRACTION_AFTER_FEE
W3INPUT_FRACTION_AFTER_FEE == DecSub(W3ONE_HUNDRED_PERCENT, W3BASE_FEE)

\* the routes of the trades: their pairs, one per hop
RoutePairs == { <<"A-B">>, <<"A-C", "C-B">>, <<"A-C", "C-D", "D-B">> }

\* the price impacts of the trades (the slippage the wrapper answers)
PriceImpacts == { Dec(1, 1000), Dec(1, 100), Dec(3, 100), Dec(5, 100), Dec(15, 100) }

\* the raw input amounts of the trades
RawAmounts == {100, 200}

PricedTrades ==
  [pairs : RoutePairs, priceImpact : PriceImpacts, inputAmount : RawAmounts,
   inputIsEther : BOOLEAN]

\* a fee that adds up over the hops
reduceFee_Additive(pairs, currentFee) ==
  DecSub(currentFee, Dec(30 * Len(pairs), 10000))

\* trade.route.pairs.reduce((currentFee) => currentFee.multiply(
\* INPUT_FRACTION_AFTER_FEE), ONE_HUNDRED_PERCENT)
RECURSIVE reduceFee(_, _)
reduceFee(pairs, currentFee) ==
  IF pairs = <<>> THEN currentFee
  ELSE reduceFee(Tail(pairs), Norm(DecMul(currentFee, W3INPUT_FRACTION_AFTER_FEE)))

\* const realizedLPFee of both functions
realizedLPFee(trade) ==
  IF ~IsSome(trade) THEN None
  ELSE Some(DecSub(W3ONE_HUNDRED_PERCENT,
                   reduceFee(Get(trade).pairs, Norm(W3ONE_HUNDRED_PERCENT))))

\* trade && realizedLPFee ? priceImpact.subtract(realizedLPFee) : undefined
priceImpactWithoutFee(trade, priceImpact) ==
  IF IsSome(trade) /\ IsSome(realizedLPFee(trade))
    THEN Some(DecSub(priceImpact, Get(realizedLPFee(trade))))
    ELSE None

\* computeTradePriceBreakdown
computeTradePriceBreakdown(trade) ==
  [ priceImpactWithoutFee |->
      IF IsSome(trade) THEN priceImpactWithoutFee(trade, Get(trade).priceImpact)
                       ELSE None,
    realizedLPFee |->
      IF IsSome(realizedLPFee(trade)) /\ IsSome(trade)
        THEN Some([ token |-> IF Get(trade).inputIsEther THEN "ETHER" ELSE "token",
                    amount |-> Quotient(Get(realizedLPFee(trade)),
                                        Get(trade).inputAmount) ])
        ELSE None ]

\* w3computeTradePriceBreakdown, given what w3TradeSlippage answered
w3computeTradePriceBreakdown(trade, slippage) ==
  [ priceImpactWithoutFee |->
      IF IsSome(trade) THEN priceImpactWithoutFee(trade, Get(slippage)) ELSE None,
    realizedLPFee |->
      IF IsSome(realizedLPFee(trade)) /\ IsSome(trade)
        THEN Some([ token |-> IF Get(trade).inputIsEther THEN "ETHER" ELSE "token",
                    amount |-> ToFixed0(Get(realizedLPFee(trade)),
                                        Get(trade).inputAmount) ])
        ELSE None ]

\* the four thresholds of ../constants, ascending: low, medium, high, blocked
W3ALLOWED_PRICE_IMPACT_LOW == Dec(1, 100)

W3ALLOWED_PRICE_IMPACT_MEDIUM == Dec(3, 100)

W3ALLOWED_PRICE_IMPACT_HIGH == Dec(5, 100)

W3BLOCKED_PRICE_IMPACT_NON_EXPERT == Dec(15, 100)

\* priceImpact?.lessThan(threshold): undefined for an undefined impact
OptLessThan(priceImpact, threshold) ==
  IF IsSome(priceImpact) THEN DecLessThan(Get(priceImpact), threshold) ELSE FALSE

\* a severity that a threshold is reached by only when exceeded
warningSeverity_Exceeds(priceImpact) ==
  IF ~IsSome(priceImpact) THEN 4
  ELSE IF DecLessThan(W3BLOCKED_PRICE_IMPACT_NON_EXPERT, Get(priceImpact)) THEN 4
  ELSE IF DecLessThan(W3ALLOWED_PRICE_IMPACT_HIGH, Get(priceImpact)) THEN 3
  ELSE IF DecLessThan(W3ALLOWED_PRICE_IMPACT_MEDIUM, Get(priceImpact)) THEN 2
  ELSE IF DecLessThan(W3ALLOWED_PRICE_IMPACT_LOW, Get(priceImpact)) THEN 1
  ELSE 0

\* warningSeverity
warningSeverity(priceImpact) ==
  IF ~OptLessThan(priceImpact, W3BLOCKED_PRICE_IMPACT_NON_EXPERT) THEN 4
  ELSE IF ~OptLessThan(priceImpact, W3ALLOWED_PRICE_IMPACT_HIGH) THEN 3
  ELSE IF ~OptLessThan(priceImpact, W3ALLOWED_PRICE_IMPACT_MEDIUM) THEN 2
  ELSE IF ~OptLessThan(priceImpact, W3ALLOWED_PRICE_IMPACT_LOW) THEN 1
  ELSE 0

\* no call of the functions of utils/trades
UtilIdle ==
  /\ utilTrade = None
  /\ utilPc = "idle"
  /\ breakdown = None
  /\ w3slippage = None
  /\ w3breakdown = None
  /\ impactGiven = None
  /\ severity = None

(* ------------------------------------------------------------------ *)
(* useERC20Permit                                                      *)
(* ------------------------------------------------------------------ *)

\* UseERC20PermitState
NOT_APPLICABLE == "NOT_APPLICABLE"

NOT_SIGNED == "NOT_SIGNED"

SIGNED == "SIGNED"

\* PermitType
AMOUNT == "AMOUNT"

ALLOWED == "ALLOWED"

\* 20 minutes to submit after signing
PERMIT_VALIDITY_BUFFER == 20 * 60

\* the chain of the model
Mainnet == 1

\* PERMITTABLE_TOKENS[chainId]?.[tokenAddress], the entries of chain 1
PERMITTABLE_TOKENS(chainId, tokenAddress) ==
  IF chainId = Mainnet /\ tokenAddress = "USDC"
    THEN Some([type |-> AMOUNT, name |-> "USD Coin", version |-> Some("2")])
  ELSE IF chainId = Mainnet /\ tokenAddress = "DAI"
    THEN Some([type |-> ALLOWED, name |-> "Dai Stablecoin", version |-> Some("1")])
  ELSE IF chainId = Mainnet /\ tokenAddress = "UNI"
    THEN Some([type |-> AMOUNT, name |-> "Uniswap", version |-> None])
  ELSE None

\* V3_ROUTER_ADDRESS[chainId] and SWAP_ROUTER_ADDRESSES[chainId]
V3_ROUTER_ADDRESS == "0xV3Router"

SWAP_ROUTER_ADDRESSES == "0xSwapRouter"

Spenders == {V3_ROUTER_ADDRESS, SWAP_ROUTER_ADDRESSES}

\* the kinds of trade useERC20PermitFromTrade is given
TradeKinds == {"V2Trade", "PolyTrade", "RouterTrade"}

\* const swapRouterAddress of useERC20PermitFromTrade
swapRouterAddress(chainId, trade) ==
  IF IsSome(chainId)
    THEN IF IsSome(trade) /\ Get(trade) = "V2Trade" THEN Null
         ELSE IF IsSome(trade) /\ Get(trade) = "PolyTrade" THEN V3_ROUTER_ADDRESS
         ELSE SWAP_ROUTER_ADDRESSES
    ELSE Null

\* the amounts to approve: of a token with an entry, of one without, of the
\* native currency
CurrencyAmounts ==
  { [isToken |-> TRUE, address |-> "USDC", quotient |-> 100],
    [isToken |-> TRUE, address |-> "USDC", quotient |-> 200],
    [isToken |-> TRUE, address |-> "DAI", quotient |-> 100],
    [isToken |-> TRUE, address |-> "DAI", quotient |-> 200],
    [isToken |-> TRUE, address |-> "WETH", quotient |-> 100],
    [isToken |-> FALSE, address |-> "ETH", quotient |-> 100] }

\* an override descriptor
OverridePermitInfos == { [type |-> AMOUNT, name |-> "Wrapped Ether", version |-> Some("1")] }

\* the transaction deadlines, in seconds: one, one 1200 s later, one 1201 s later
TransactionDeadlines == {1000, 1000 + PERMIT_VALIDITY_BUFFER, 1001 + PERMIT_VALIDITY_BUFFER}

\* the states of the EIP-2612 contract and of the call of nonces(account)
NoContract ==
  [contract |-> FALSE, valid |-> FALSE, loading |-> FALSE, result |-> None]

TokenNonceStates ==
  { NoContract,
    [contract |-> TRUE, valid |-> FALSE, loading |-> FALSE, result |-> None],
    [contract |-> TRUE, valid |-> TRUE, loading |-> TRUE, result |-> None],
    [contract |-> TRUE, valid |-> TRUE, loading |-> FALSE, result |-> None],
    [contract |-> TRUE, valid |-> TRUE, loading |-> TRUE, result |-> Some(0)],
    [contract |-> TRUE, valid |-> TRUE, loading |-> FALSE, result |-> Some(0)],
    [contract |-> TRUE, valid |-> TRUE, loading |-> FALSE, result |-> Some(1)] }

\* currencyAmount?.currency?.isToken ? currencyAmount.currency.address : undefined
tokenAddress(c) ==
  IF IsSome(c.currencyAmount) /\ Get(c.currencyAmount).isToken
    THEN Get(c.currencyAmount).address
    ELSE Null

\* a permit info taken from the allow-list although an override is given
permitInfo_NoOverride(c) ==
  IF IsSome(c.chainId) /\ tokenAddress(c) # Null
    THEN PERMITTABLE_TOKENS(Get(c.chainId), tokenAddress(c))
    ELSE None

\* overridePermitInfo ?? (chainId && tokenAddress ? PERMITTABLE_TOKENS[..]?.[..] : undefined)
permitInfo(c) ==
  IF IsSome(c.overridePermitInfo) THEN c.overridePermitInfo
  ELSE IF IsSome(c.chainId) /\ tokenAddress(c) # Null
    THEN PERMITTABLE_TOKENS(Get(c.chainId), tokenAddress(c))
    ELSE None

\* the first guard of the memo: no permit for this wallet, token or context
NotApplicable(c) ==
  \/ c.isArgentWallet
  \/ ~IsSome(c.currencyAmount)
  \/ ~c.tokenNonceState.contract
  \/ c.account = Null
  \/ ~IsSome(c.chainId)
  \/ ~IsSome(c.transactionDeadline)
  \/ ~c.provider
  \/ ~c.tokenNonceState.valid
  \/ tokenAddress(c) = Null
  \/ c.spender = Null
  \/ ~IsSome(permitInfo(c))

\* tokenNonceState.result?.[0]?.toNumber()
nonceNumber(c) == c.tokenNonceState.result

\* a nonce that counts as resolved as soon as it has a numeric value
NonceLoading_ResultOnly(c) == ~IsSome(nonceNumber(c))

\* tokenNonceState.loading || typeof nonceNumber !== 'number'
NonceLoading(c) == c.tokenNonceState.loading \/ ~IsSome(nonceNumber(c))

\* currencyAmount.quotient.toString() and JSBI.BigInt of such a string
QuotientToString(n) == <<"decimal", n>>

BigInt(s) == s[2]

\* a signature that is valid whatever nonce it was given for
isSignatureDataValid_AnyNonce(c, sig) ==
  /\ IsSome(sig)
  /\ Get(sig).owner = c.account
  /\ Get(sig).deadline >= Get(c.transactionDeadline)
  /\ Get(sig).tokenAddress = tokenAddress(c)
  /\ Get(sig).spender = c.spender
  /\ \/ "allowed" \in DOMAIN Get(sig)
     \/ BigInt(Get(sig).amount) = Get(c.currencyAmount).quotient

\* const isSignatureDataValid
isSignatureDataValid(c, sig) ==
  /\ IsSome(sig)
  /\ Get(sig).owner = c.account
  /\ Get(sig).deadline >= Get(c.transactionDeadline)
  /\ Get(sig).tokenAddress = tokenAddress(c)
  /\ Get(sig).nonce = Get(nonceNumber(c))
  /\ Get(sig).spender = c.spender
  /\ \/ "allowed" \in DOMAIN Get(sig)
     \/ BigInt(Get(sig).amount) = Get(c.currencyAmount).quotient

\* a memo that hands out whatever signature is stored
useERC20Permit_StoredSignature(c, sig) ==
  IF NotApplicable(c)
    THEN [state |-> NOT_APPLICABLE, signatureData |-> None, gatherPermitSignature |-> FALSE]
  ELSE IF NonceLoading(c)
    THEN [state |-> LOADING, signatureData |-> None, gatherPermitSignature |-> FALSE]
  ELSE [ state |-> IF isSignatureDataValid(c, sig) THEN SIGNED ELSE NOT_SIGNED,
         signatureData |-> sig,
         gatherPermitSignature |-> TRUE ]

\* what the memo of useERC20Permit returns
useERC20Permit(c, sig) ==
  IF NotApplicable(c)
    THEN [state |-> NOT_APPLICABLE, signatureData |-> None, gatherPermitSignature |-> FALSE]
  ELSE IF NonceLoading(c)
    THEN [state |-> LOADING, signatureData |-> None, gatherPermitSignature |-> FALSE]
  ELSE [ state |-> IF isSignatureDataValid(c, sig) THEN SIGNED ELSE NOT_SIGNED,
         signatureData |-> IF isSignatureDataValid(c, sig) THEN sig ELSE None,
         gatherPermitSignature |-> TRUE ]

\* a signature deadline without the buffer
signatureDeadline_NoBuffer(c) == Get(c.transactionDeadline)

\* const signatureDeadline of gatherPermitSignature
signatureDeadline(c) == Get(c.transactionDeadline) + PERMIT_VALIDITY_BUFFER

\* the signature gatherPermitSignature stores once the wallet has signed
SignatureFor(c) ==
  IF Get(permitInfo(c)).type = ALLOWED
    THEN [ deadline |-> signatureDeadline(c), allowed |-> TRUE,
           nonce |-> Get(nonceNumber(c)), chainId |-> Get(c.chainId),
           owner |-> c.account, spender |-> c.spender,
           tokenAddress |-> tokenAddress(c), permitType |-> Get(permitInfo(c)).type ]
    ELSE [ deadline |-> signatureDeadline(c),
           amount |-> QuotientToString(Get(c.currencyAmount).quotient),
           nonce |-> Get(nonceNumber(c)), chainId |-> Get(c.chainId),
           owner |-> c.account, spender |-> c.spender,
           tokenAddress |-> tokenAddress(c), permitType |-> Get(permitInfo(c)).type ]

\* no use of the permit hook
PermitIdle ==
  /\ permitCtx = [ isArgentWallet |-> FALSE, currencyAmount |-> None, spender |-> Null,
                   transactionDeadline |-> None, overridePermitInfo |-> None,
                   account |-> Null, chainId |-> None, provider |-> FALSE,
                   trade |-> None, fromTrade |-> FALSE, tokenNonceState |-> NoContract ]
  /\ signatureData = None
  /\ permit = [state |-> "unrendered", signatureData |-> None,
               gatherPermitSignature |-> FALSE]
  /\ signing = {}
  /\ contextChanges = 0

(* ------------------------------------------------------------------ *)
(* polywrap-utils/makeCancelable (not among the sources; modelled from  *)
(* the spec): a derivation in flight, the ref that holds the latest one *)
(* ------------------------------------------------------------------ *)

\* makeCancelable(promise): a derivation in flight, not canceled, about to
\* be stored in the ref
makeCancelable(payload) == [payload |-> payload, canceled |-> FALSE, current |-> TRUE]

\* cancelable.current?.cancel()
cancelCurrent(promises) ==
  { IF p.current THEN [p EXCEPT !.canceled = TRUE] ELSE p : p \in promises }

\* cancelable.current = makeCancelable(promise)
setCurrent(promises, payload) ==
  { [p EXCEPT !.current = FALSE] : p \in promises } \cup {makeCancelable(payload)}

\* what the then() of the wrapped promise receives once the derivation has
\* an answer: nothing if it was canceled
resolved(p, value) == IF p.canceled THEN None ELSE Some(value)

\* an effect that stores the derivation it starts and cancels nothing
runEffect_StartWithoutCancel(promises, started) ==
  IF IsSome(started) THEN setCurrent(promises, Get(started)) ELSE promises

\* an effect that cancels what the ref holds only where it starts a derivation
runEffect_CancelOnStart(promises, started) ==
  IF IsSome(started) THEN setCurrent(cancelCurrent(promises), Get(started)) ELSE promises

\* an effect: cancel what the ref holds, then store the derivation started,
\* if one is started
runEffect(promises, started) ==
  IF IsSome(started) THEN setCurrent(cancelCurrent(promises), Get(started))
                     ELSE cancelCurrent(promises)

\* the derivations in flight that have not been canceled
Uncanceled(promises) == { p \in promises : ~p.canceled }

\* the payload of the derivation the ref holds, if it has not been canceled
CurrentOf(promises) ==
  IF \E p \in promises : p.current /\ ~p.canceled
    THEN Some((CHOOSE p \in promises : p.current /\ ~p.canceled).payload)
    ELSE None

(* ------------------------------------------------------------------ *)
(* useClientSideV3Trade                                                *)
(* ------------------------------------------------------------------ *)

\* TradeState
NO_ROUTE_FOUND == "NO_ROUTE_FOUND"

\* the currencies asked for: the native one and a token (routes run between
\* the wrapped native one and the token)
V3Currencies == {"ETH", "DAI"}

\* currency.wrapped
Wrapped(currency) == IF currency = "ETH" THEN "WETH" ELSE currency

\* the routes useAllV3Routes may answer with, and the lists of them
RouteA == [id |-> "A", input |-> "WETH", output |-> "DAI"]

RouteB == [id |-> "B", input |-> "WETH", output |-> "DAI"]

RouteC == [id |-> "C", input |-> "DAI", output |-> "WETH"]

RouteLists == { <<>>, <<RouteA>>, <<RouteA, RouteB>>, <<RouteC>> }

\* the raw amounts the quoter may answer with
QuoteAmounts == {10, 20}

\* the amounts specified
AmountsSpecified ==
  { [currency |-> "ETH", quotient |-> 100], [currency |-> "ETH", quotient |-> 200],
    [currency |-> "DAI", quotient |-> 100] }

\* [currencyIn, currencyOut] of the hook, undefined as None
currencyIn(in) ==
  IF in.tradeType = EXACT_INPUT
    THEN IF IsSome(in.amountSpecified) THEN Some(Get(in.amountSpecified).currency) ELSE None
    ELSE in.otherCurrency

currencyOut(in) ==
  IF in.tradeType = EXACT_INPUT
    THEN in.otherCurrency
    ELSE IF IsSome(in.amountSpecified) THEN Some(Get(in.amountSpecified).currency) ELSE None

\* a call of the quoter that has not answered yet, and one that cannot be made
QuoteLoading == [valid |-> TRUE, loading |-> TRUE, result |-> None]

QuoteInvalid == [valid |-> FALSE, loading |-> FALSE, result |-> None]

\* the first guard of the effect: nothing to trade
V3Invalid(in, quotes) ==
  \/ ~IsSome(in.amountSpecified)
  \/ ~IsSome(currencyIn(in))
  \/ ~IsSome(currencyOut(in))
  \/ \E k \in 1..Len(quotes) : ~quotes[k].valid
  \/ IF in.tradeType = EXACT_INPUT
       THEN Get(in.amountSpecified).currency = Get(currencyOut(in))
       ELSE Get(in.amountSpecified).currency = Get(currencyIn(in))

\* the second guard: routes or quotes are loading
V3Loading(rl, quotes) == rl \/ \E k \in 1..Len(quotes) : quotes[k].loading

\* routes[i] of the reducer: undefined beyond the list
RouteAt(rts, i) == IF i <= Len(rts) THEN Some(rts[i]) ELSE None

\* the reducer of quotesResults.reduce, for the element at index i (from 1)
reduceQuote(in, rts, currentBest, quote, i) ==
  IF ~IsSome(quote.result) THEN currentBest
  ELSE IF in.tradeType = EXACT_INPUT
    THEN IF Get(quote.result).kind # "amountOut" THEN currentBest
         ELSE IF \/ ~IsSome(currentBest.amountOut)
                 \/ Get(currentBest.amountOut).quotient < Get(quote.result).amount
           THEN [ bestRoute |-> RouteAt(rts, i),
                  amountIn |-> in.amountSpecified,
                  amountOut |-> Some([ currency |-> Get(currencyOut(in)),
                                       quotient |-> Get(quote.result).amount ]) ]
           ELSE currentBest
    ELSE IF Get(quote.result).kind # "amountIn" THEN currentBest
         ELSE IF \/ ~IsSome(currentBest.amountIn)
                 \/ Get(currentBest.amountIn).quotient > Get(quote.result).amount
           THEN [ bestRoute |-> RouteAt(rts, i),
                  amountIn |-> Some([ currency |-> Get(currencyIn(in)),
                                      quotient |-> Get(quote.result).amount ]),
                  amountOut |-> in.amountSpecified ]
           ELSE currentBest

\* quotesResults.reduce(reducer, { bestRoute: null, amountIn: null, amountOut: null })
RECURSIVE reduceQuotes(_, _, _, _, _)
reduceQuotes(in, rts, quotes, i, currentBest) ==
  IF i > Len(quotes) THEN currentBest
  ELSE reduceQuotes(in, rts, quotes, i + 1,
                    reduceQuote(in, rts, currentBest, quotes[i], i))

bestOf(in, rts, quotes) ==
  reduceQuotes(in, rts, quotes, 1,
               [bestRoute |-> None, amountIn |-> None, amountOut |-> None])

\* !bestRoute || !amountIn || !amountOut
NoRouteFound(best) ==
  ~IsSome(best.bestRoute) \/ ~IsSome(best.amountIn) \/ ~IsSome(best.amountOut)

\* endpoints that are never looked at
EndpointMismatch_Ignored(best) == FALSE

\* the two tests on the endpoints of the best route, on wrapped tokens
EndpointMismatch(best) ==
  \/ Get(best.bestRoute).input # Wrapped(Get(best.amountIn).currency)
  \/ Get(best.bestRoute).output # Wrapped(Get(best.amountOut).currency)

\* the argument of Uni_Module.createUncheckedTrade
UncheckedTrade(in, best) ==
  [ route |-> Get(best.bestRoute),
    inputAmount |-> Get(best.amountIn),
    outputAmount |-> Get(best.amountOut),
    tradeType |-> in.tradeType ]

\* an effect that reports INVALID where no route has a usable quote
tradeEffect_NoRouteIsInvalid(in, rts, rl, quotes, current) ==
  IF V3Invalid(in, quotes) \/ (~V3Loading(rl, quotes) /\ NoRouteFound(bestOf(in, rts, quotes)))
    THEN [result |-> [state |-> INVALID, trade |-> None], tradePromise |-> None]
  ELSE IF V3Loading(rl, quotes)
    THEN [result |-> [state |-> LOADING, trade |-> None], tradePromise |-> None]
  ELSE IF EndpointMismatch(bestOf(in, rts, quotes))
    THEN [result |-> current, tradePromise |-> None]
  ELSE [ result |-> current,
         tradePromise |-> Some(UncheckedTrade(in, bestOf(in, rts, quotes))) ]

\* one run of the second effect: the result it sets (the one there is, where
\* it sets none) and the trade it asks the wrapper to create, if any
tradeEffect(in, rts, rl, quotes, current) ==
  IF V3Invalid(in, quotes)
    THEN [result |-> [state |-> INVALID, trade |-> None], tradePromise |-> None]
  ELSE IF V3Loading(rl, quotes)
    THEN [result |-> [state |-> LOADING, trade |-> None], tradePromise |-> None]
  ELSE IF NoRouteFound(bestOf(in, rts, quotes))
    THEN [result |-> [state |-> NO_ROUTE_FOUND, trade |-> None], tradePromise |-> None]
  ELSE IF EndpointMismatch(bestOf(in, rts, quotes))
    THEN [result |-> current, tradePromise |-> None]
  ELSE [ result |-> current,
         tradePromise |-> Some(UncheckedTrade(in, bestOf(in, rts, quotes))) ]

\* no use of useClientSideV3Trade
V3Idle ==
  /\ v3in = [tradeType |-> EXACT_INPUT, amountSpecified |-> None, otherCurrency |-> None]
  /\ routes = <<>>
  /\ routesLoading = FALSE
  /\ callParams = <<>>
  /\ calldataPromises = {}
  /\ quotesResults = <<>>
  /\ v3result = [state |-> "unmounted", trade |-> None]
  /\ tradePromises = {}
  /\ inputChanges = 0
  /\ v3mounted = FALSE

(* ------------------------------------------------------------------ *)
(* useRoutingAPITrade                                                  *)
(* ------------------------------------------------------------------ *)

\* the default of maxBlockAge
maxBlockAge == 10

\* Number(s) of a decimal string
Number(s) == s[2]

\* what useBlockNumber may answer with, undefined as None
LocalBlockNumbers == {None, Some(105), Some(110), Some(111)}

\* the quotes the routing API may answer with
GetQuoteResults ==
  { [blockNumber |-> <<"decimal", 100>>, quote |-> <<"decimal", q>>, gasUseEstimateUSD |-> 3] :
      q \in QuoteAmounts }

\* the inputs of the hook
RoutingInputs ==
  [ tradeType : {EXACT_INPUT, EXACT_OUTPUT},
    amountSpecified : {None, Some([currency |-> "ETH", quotient |-> 100])},
    otherCurrency : {None} \cup {Some(c) : c \in V3Currencies} ]

\* Number(data?.blockNumber) || 0
dataBlockNumber(data) == IF IsSome(data) THEN Number(Get(data).blockNumber) ELSE 0

useFreshData_AnyAge(data, blockNumber, localBlock) ==
  IF ~IsSome(localBlock) THEN None ELSE data

\* useFreshData: the data, unless the local block number is unknown or the
\* data is more than maxBlockAge blocks behind it
useFreshData(data, blockNumber, localBlock) ==
  IF ~IsSome(localBlock) THEN None
  ELSE IF Get(localBlock) - blockNumber > maxBlockAge THEN None
  ELSE data

\* useRoutingAPIArguments: the arguments of the query, undefined (None) if
\* the query is to be skipped
useRoutingAPIArguments(in) ==
  IF \/ ~IsSome(currencyIn(in))
     \/ ~IsSome(currencyOut(in))
     \/ ~IsSome(in.amountSpecified)
     \/ currencyIn(in) = currencyOut(in)
    THEN None
    ELSE Some([ amount |-> QuotientToString(Get(in.amountSpecified).quotient),
                tokenIn |-> Wrapped(Get(currencyIn(in))),
                tokenOut |-> Wrapped(Get(currencyOut(in))),
                type |-> IF in.tradeType = EXACT_INPUT THEN "exactIn" ELSE "exactOut" ])

\* what useGetQuoteQuery may answer with (not among the sources; modelled
\* from the spec): loading only while there is no data, never loading and in
\* error at once, and neither when the query is skipped
QueryResults(args) ==
  { q \in [ isLoading : BOOLEAN, isError : BOOLEAN,
            data : {None} \cup {Some(d) : d \in GetQuoteResults} ] :
      /\ ~(q.isLoading /\ q.isError)
      /\ q.isLoading => ~IsSome(q.data)
      /\ ~IsSome(args) => ~q.isLoading /\ ~q.isError }

\* the query after the arguments changed to args, before it answers anew
QueryFor(q, args) ==
  IF IsSome(args) THEN q ELSE [q EXCEPT !.isLoading = FALSE, !.isError = FALSE]

\* quoteResult of one render
quoteResultOf(q, localBlock) == useFreshData(q.data, dataBlockNumber(q.data), localBlock)

\* gasUseEstimateUSD of one render, null as None
gasUseEstimateUSDOf(q, localBlock) ==
  IF IsSome(quoteResultOf(q, localBlock))
    THEN Some(Get(quoteResultOf(q, localBlock)).gasUseEstimateUSD)
    ELSE None

\* otherAmount of the effect
otherAmountOf(in, quoteResult) ==
  IF in.tradeType = EXACT_INPUT
    THEN IF IsSome(currencyOut(in)) /\ IsSome(quoteResult)
           THEN Some([ currency |-> Get(currencyOut(in)),
                       quotient |-> BigInt(Get(quoteResult).quote) ])
           ELSE None
    ELSE IF IsSome(currencyIn(in)) /\ IsSome(quoteResult)
           THEN Some([ currency |-> Get(currencyIn(in)),
                       quotient |-> BigInt(Get(quoteResult).quote) ])
           ELSE None

\* the dependencies of the effect
routingDeps(in, q, localBlock) ==
  << currencyIn(in), currencyOut(in), q.isLoading, quoteResultOf(q, localBlock),
     in.tradeType, q.isError, useRoutingAPIArguments(in),
     gasUseEstimateUSDOf(q, localBlock) >>

\* one run of the effect: the result it sets (the one there is, where it
\* sets none) and the arguments of the loadTrade it starts, if any
routingEffect(in, q, localBlock, current) ==
  IF ~IsSome(currencyIn(in)) \/ ~IsSome(currencyOut(in))
    THEN [result |-> [state |-> INVALID, trade |-> None, gasUseEstimateUSD |-> None],
          tradePromise |-> None]
  ELSE IF q.isLoading /\ ~IsSome(quoteResultOf(q, localBlock))
    THEN [result |-> [state |-> LOADING, trade |-> None, gasUseEstimateUSD |-> None],
          tradePromise |-> None]
  ELSE IF \/ q.isError
          \/ ~IsSome(otherAmountOf(in, quoteResultOf(q, localBlock)))
          \/ ~IsSome(useRoutingAPIArguments(in))
    THEN [result |-> [state |-> NO_ROUTE_FOUND, trade |-> None, gasUseEstimateUSD |-> None],
          tradePromise |-> None]
  ELSE [ result |-> current,
         tradePromise |-> Some([ currencyIn |-> Get(currencyIn(in)),
                                 currencyOut |-> Get(currencyOut(in)),
                                 tradeType |-> in.tradeType,
                                 quoteResult |-> quoteResultOf(q, localBlock),
                                 gasUseEstimateUSD |-> gasUseEstimateUSDOf(q, localBlock) ]) ]

\* what computeRoutes and transformRoutesToTrade may answer with (not among
\* the sources; modelled from the spec)
ComputedRoutes == {"undefined", "empty", "routes"}

TransformedTrades == {"undefined", "throws", "trade"}

loadTrade_FailureIsNoRoute(args, route, transformed) ==
  IF route \in {"undefined", "empty"} \/ transformed \in {"undefined", "throws"}
    THEN [state |-> NO_ROUTE_FOUND, trade |-> None, gasUseEstimateUSD |-> None]
    ELSE [ state |-> VALID,
           trade |-> Some([ inputCurrency |-> args.currencyIn,
                            outputCurrency |-> args.currencyOut,
                            tradeType |-> args.tradeType,
                            quote |-> Get(args.quoteResult) ]),
           gasUseEstimateUSD |-> None ]

\* loadTrade: the result for the routes computed and the trade they are
\* transformed to; the gas estimate goes with the INVALID results only
loadTrade(args, route, transformed) ==
  IF route \in {"undefined", "empty"}
    THEN [state |-> NO_ROUTE_FOUND, trade |-> None, gasUseEstimateUSD |-> None]
  ELSE IF transformed \in {"undefined", "throws"}
    THEN [state |-> INVALID, trade |-> None,
          gasUseEstimateUSD |-> Some(args.gasUseEstimateUSD)]
  ELSE [ state |-> VALID,
         trade |-> Some([ inputCurrency |-> args.currencyIn,
                          outputCurrency |-> args.currencyOut,
                          tradeType |-> args.tradeType,
                          quote |-> Get(args.quoteResult) ]),
         gasUseEstimateUSD |-> None ]

\* no use of useRoutingAPITrade
RoutingIdle ==
  /\ rtIn = [tradeType |-> EXACT_INPUT, amountSpecified |-> None, otherCurrency |-> None]
  /\ rtQuery = [isLoading |-> FALSE, isError |-> FALSE, data |-> None]
  /\ localBlockNumber = None
  /\ tradeResult = [state |-> "unmounted", trade |-> None, gasUseEstimateUSD |-> None]
  /\ rtPromises = {}
  /\ rtMounted = FALSE

(* ------------------------------------------------------------------ *)
(* useERC20PermitFromTrade: the amount to approve                      *)
(* ------------------------------------------------------------------ *)

\* the slippage tolerances, in hundredths of a percent
HookSlippages == {50, 100}

\* allowedSlippage.toFixed(places)
SlippageToFixed(slippage, places) == <<"fixed", places, slippage>>

\* the trades handed to the hook: one of the SDK and two of the wrapper
ApproveTrades ==
  { [wrapper |-> FALSE, tradeType |-> EXACT_INPUT, inputAmount |-> 100],
    [wrapper |-> TRUE, tradeType |-> EXACT_INPUT, inputAmount |-> 100],
    [wrapper |-> TRUE, tradeType |-> EXACT_OUTPUT, inputAmount |-> 200] }

ApproveInputs ==
  [ trade : {None} \cup {Some(t) : t \in ApproveTrades}, allowedSlippage : HookSlippages ]

\* isTrade(trade): a trade of the wrapper
isTrade(trade) == trade.wrapper

\* trade.maximumAmountIn(allowedSlippage) of the SDK (not among the sources;
\* modelled from the spec): the amount in, raised by the slippage
maximumAmountIn(trade, slippage) ==
  [maximumAmountIn |-> trade.inputAmount, slippage |-> slippage]

\* the arguments of Uni_Module.tradeMaximumAmountIn
maxInArgs(trade, slippage) ==
  [ slippageTolerance |-> SlippageToFixed(slippage, 36), amountIn |-> trade.inputAmount,
    tradeType |-> trade.tradeType ]

\* reverseMapTokenAmount of what Uni_Module.tradeMaximumAmountIn answers for
\* these arguments (not among the sources; modelled from the spec)
maxAmountInOf(args) ==
  [maximumAmountIn |-> args.amountIn, slippage |-> args.slippageTolerance[3]]

\* one run of the effect: the amount it sets (the one there is, where it sets
\* none) and the arguments of the wrapper invocation it starts, if any
approveEffect(in, current) ==
  IF ~IsSome(in.trade)
    THEN [amountToApprove |-> None, maxInPromise |-> None]
  ELSE IF ~isTrade(Get(in.trade))
    THEN [ amountToApprove |-> Some(maximumAmountIn(Get(in.trade), in.allowedSlippage)),
           maxInPromise |-> None ]
  ELSE [ amountToApprove |-> current,
         maxInPromise |-> Some(maxInArgs(Get(in.trade), in.allowedSlippage)) ]

\* no use of useERC20PermitFromTrade
ApproveIdle ==
  /\ apIn = [trade |-> None, allowedSlippage |-> 50]
  /\ amountToApprove = None
  /\ apPromises = {}
  /\ apMounted = FALSE

(* ------------------------------------------------------------------ *)
(* SwapModalHeader: the amount displayed                               *)
(* ------------------------------------------------------------------ *)

\* the trades handed to the component
HeaderTrades ==
  { [tradeType |-> EXACT_INPUT, inputAmount |-> 100, outputAmount |-> 20],
    [tradeType |-> EXACT_OUTPUT, inputAmount |-> 100, outputAmount |-> 20],
    [tradeType |-> EXACT_INPUT, inputAmount |-> 200, outputAmount |-> 40] }

HeaderInputs == [trade : HeaderTrades, allowedSlippage : HookSlippages]

\* the wrapper invocation of asyncAmount
asyncAmount(in) ==
  IF in.trade.tradeType = EXACT_INPUT
    THEN [ method |-> "tradeMinimumAmountOut",
           slippageTolerance |-> SlippageToFixed(in.allowedSlippage, 18),
           amount |-> in.trade.outputAmount, tradeType |-> in.trade.tradeType ]
    ELSE [ method |-> "tradeMaximumAmountIn",
           slippageTolerance |-> SlippageToFixed(in.allowedSlippage, 18),
           amount |-> in.trade.inputAmount, tradeType |-> in.trade.tradeType ]

\* toSignificant(res, 6) of the amount the wrapper answers with for this
\* invocation (not among the sources; modelled from the spec)
amountToSignificant(invocation, digits) ==
  << "significant", digits, invocation.method, invocation.amount,
     invocation.slippageTolerance[3] >>

\* the component is not shown
HeaderIdle ==
  /\ hdIn = [ trade |-> [tradeType |-> EXACT_INPUT, inputAmount |-> 100, outputAmount |-> 20],
              allowedSlippage |-> 50 ]
  /\ hdAmount = <<>>
  /\ hdPromises = {}
  /\ hdMounted = FALSE

(* ------------------------------------------------------------------ *)
(* useV3DerivedMintInfo: the position                                  *)
(* ------------------------------------------------------------------ *)

BIG_INT_ZERO == 0

\* the pool of the position, the tokens, the ticks and the amounts parsed
MintPool == [token0 |-> "DAI", token1 |-> "WETH", tickCurrent |-> 0]

MintInputs ==
  [ poolForPosition : {None, Some(MintPool)},
    tokenA : {None, Some("DAI"), Some("WETH")},
    tokenB : {None, Some("WETH")},
    tickLower : {None, Some(-60), Some(0), Some(60)},
    tickUpper : {None, Some(0), Some(60)},
    CURRENCY_A : {None, Some(5)},
    CURRENCY_B : {None, Some(7)} ]

invalidRange_Strict(in) ==
  IsSome(in.tickLower) /\ IsSome(in.tickUpper) /\ Get(in.tickLower) > Get(in.tickUpper)

\* invalidRange: both ticks are numbers and the lower is not below the upper
invalidRange(in) ==
  IsSome(in.tickLower) /\ IsSome(in.tickUpper) /\ Get(in.tickLower) >= Get(in.tickUpper)

\* single deposit only if price is out of range
deposit0Disabled(in) ==
  /\ IsSome(in.tickUpper)
  /\ IsSome(in.poolForPosition)
  /\ Get(in.poolForPosition).tickCurrent >= Get(in.tickUpper)

deposit1Disabled(in) ==
  /\ IsSome(in.tickLower)
  /\ IsSome(in.poolForPosition)
  /\ Get(in.poolForPosition).tickCurrent <= Get(in.tickLower)

\* amount0 and amount1 of the effect (past its first return): 0 if the
\* deposit is disabled, else the amount parsed for the token, if any
amount0(in) ==
  IF deposit0Disabled(in) THEN Some(BIG_INT_ZERO)
  ELSE IF Get(in.tokenA) = Get(in.poolForPosition).token0 THEN in.CURRENCY_A
  ELSE in.CURRENCY_B

amount1(in) ==
  IF deposit1Disabled(in) THEN Some(BIG_INT_ZERO)
  ELSE IF Get(in.tokenA) = Get(in.poolForPosition).token0 THEN in.CURRENCY_B
  ELSE in.CURRENCY_A

\* one run of the effect: the position it sets (the one there is, where it
\* sets none) and the arguments of the createPositionFromAmounts it starts
positionEffect(in, current) ==
  IF \/ ~IsSome(in.poolForPosition)
     \/ ~IsSome(in.tokenA)
     \/ ~IsSome(in.tokenB)
     \/ ~IsSome(in.tickLower)
     \/ ~IsSome(in.tickUpper)
     \/ invalidRange(in)
    THEN [position |-> None, positionPromise |-> None]
  ELSE IF ~IsSome(amount0(in)) \/ ~IsSome(amount1(in))
    THEN [position |-> None, positionPromise |-> None]
  ELSE [ position |-> current,
         positionPromise |-> Some([ pool |-> Get(in.poolForPosition),
                                    tickLower |-> Get(in.tickLower),
                                    tickUpper |-> Get(in.tickUpper),
                                    amount0 |-> QuotientToString(Get(amount0(in))),
                                    amount1 |-> QuotientToString(Get(amount1(in))),
                                    useFullPrecision |-> TRUE ]) ]

\* no use of useV3DerivedMintInfo
MintIdle ==
  /\ mintIn = [ poolForPosition |-> None, tokenA |-> None, tokenB |-> None,
                tickLower |-> None, tickUpper |-> None, CURRENCY_A |-> None,
                CURRENCY_B |-> None ]
  /\ position = None
  /\ positionPromises = {}
  /\ mintMounted = FALSE

\* none of the four hooks above is in use
HooksIdle == RoutingIdle /\ ApproveIdle /\ HeaderIdle /\ MintIdle /\ hookChanges = 0

(* ------------------------------------------------------------------ *)
(* State                                                               *)
(* ------------------------------------------------------------------ *)

\* the inputs of one render of the hooks
Contexts ==
  { c \in [ trade : {None} \cup {Some(t) : t \in Trades},
            allowedSlippage : AllowedSlippages,
            recipientAddressOrName : {Null} \cup Accounts \cup Names,
            ensAddress : {Null} \cup Accounts,
            ensLoading : BOOLEAN,
            tradeVersion : {v1, v2},
            toggledVersion : {v1, v2},
            v1Exchange : BOOLEAN,
            account : {Null, "0xA11ce"},
            chainId : {None, Some(1)},
            library : BOOLEAN,
            deadline : {None} \cup {Some(d) : d \in Deadlines} ] :
      \* a name is looked up only when a name is given
      /\ (c.recipientAddressOrName \notin Names => c.ensAddress = Null)
      \* the lookup is pending only for a name that has no address yet
      /\ (c.ensLoading => c.recipientAddressOrName \in Names /\ c.ensAddress = Null)
      \* the V1 exchange is looked up only for a V1 trade
      /\ (c.v1Exchange => IsSome(c.trade) /\ c.toggledVersion = v1) }

\* a candidate before onSwap has touched it
IdleCandidate ==
  [ pc |-> "idle", call |-> None, options |-> None,
    estimate |-> "none", gas |-> 0, probe |-> "none", reason |-> Null,
    result |-> None ]

SwapInit ==
  /\ ctx \in Contexts
  /\ hook = [state |-> "unrendered", callback |-> FALSE, error |-> Null]
  /\ swapCalls = <<>>
  /\ pc = "unrendered"
  /\ cand = <<>>
  /\ order = <<>>
  /\ sentTxs = <<>>
  /\ response = None
  /\ addedTransactions = <<>>
  /\ consoleErrors = <<>>
  /\ outcome = None

(* ------------------------------------------------------------------ *)
(* Actions                                                             *)
(* ------------------------------------------------------------------ *)

\* one render: useSwapCallArguments, then useSwapCallback
Render ==
  /\ pc = "unrendered"
  /\ swapCalls' = useSwapCallArguments(ctx)
  /\ hook' = useSwapCallback(ctx)
  /\ pc' = "rendered"
  /\ UNCHANGED <<ctx, cand, order, sentTxs, response, addedTransactions,
                 consoleErrors, outcome>>

\* the callback is invoked: every candidate's async function runs up to its
\* first await, which is the parameters' promise or the gas estimate
InvokeOnSwap ==
  /\ pc = "rendered"
  /\ hook.callback
  /\ cand' = [i \in 1..Len(swapCalls) |->
                IF swapCalls[i].isPromise
                  THEN [IdleCandidate EXCEPT !.pc = "parameters"]
                  ELSE [IdleCandidate EXCEPT
                          !.pc = "estimateGas",
                          !.call = Some([parameters |-> swapCalls[i].parameters,
                                         contract |-> swapCalls[i].contract]),
                          !.options = EstimateOptions(swapCalls[i].parameters.value)]]
  /\ pc' = "estimating"
  /\ UNCHANGED <<ctx, hook, swapCalls, order, sentTxs, response, addedTransactions,
                 consoleErrors, outcome>>

\* await callAsync.parameters resolves; contract.estimateGas is called
ParametersResolved(i) ==
  /\ pc = "estimating"
  /\ cand[i].pc = "parameters"
  /\ cand' = [cand EXCEPT ![i] = [@ EXCEPT
                 !.pc = "estimateGas",
                 !.call = Some([parameters |-> swapCalls[i].parameters,
                                contract |-> swapCalls[i].contract]),
                 !.options = EstimateOptions(swapCalls[i].parameters.value)]]
  /\ UNCHANGED <<ctx, hook, swapCalls, pc, order, sentTxs, response,
                 addedTransactions, consoleErrors, outcome>>

\* contract.estimateGas resolves with a gas estimate
EstimateGasSucceeds(i, gasEstimate) ==
  /\ pc = "estimating"
  /\ cand[i].pc = "estimateGas"
  /\ cand' = [cand EXCEPT ![i] = [@ EXCEPT
                 !.pc = "settled",
                 !.estimate = "ok",
                 !.gas = gasEstimate,
                 !.result = Some(SuccessfulCall(Get(cand[i].call), gasEstimate))]]
  /\ order' = Append(order, i)
  /\ UNCHANGED <<ctx, hook, swapCalls, pc, sentTxs, response, addedTransactions,
                 consoleErrors, outcome>>

\* contract.estimateGas rejects; contract.callStatic is called
EstimateGasFails(i) ==
  /\ pc = "estimating"
  /\ cand[i].pc = "estimateGas"
  /\ cand' = [cand EXCEPT ![i] = [@ EXCEPT !.pc = "callStatic", !.estimate = "failed"]]
  /\ UNCHANGED <<ctx, hook, swapCalls, pc, order, sentTxs, response,
                 addedTransactions, consoleErrors, outcome>>

\* contract.callStatic resolves although the gas estimate failed
CallStaticSucceeds(i) ==
  /\ pc = "estimating"
  /\ cand[i].pc = "callStatic"
  /\ cand' = [cand EXCEPT ![i] = [@ EXCEPT
                 !.pc = "settled",
                 !.probe = "ok",
                 !.result = Some(UnexpectedSuccess(Get(cand[i].call)))]]
  /\ order' = Append(order, i)
  /\ UNCHANGED <<ctx, hook, swapCalls, pc, sentTxs, response, addedTransactions,
                 consoleErrors, outcome>>

\* contract.callStatic rejects with callError.reason
CallStaticReverts(i, reason) ==
  /\ pc = "estimating"
  /\ cand[i].pc = "callStatic"
  /\ cand' = [cand EXCEPT ![i] = [@ EXCEPT
                 !.pc = "settled",
                 !.probe = "reverted",
                 !.reason = reason,
                 !.result = Some(FailedCall(Get(cand[i].call), reason))]]
  /\ order' = Append(order, i)
  /\ UNCHANGED <<ctx, hook, swapCalls, pc, sentTxs, response, addedTransactions,
                 consoleErrors, outcome>>

\* whether Promise.all has every result
AllSettled == \A i \in 1..Len(cand) : cand[i].pc = "settled"

\* the estimated calls onSwap goes on with
estimatedCalls == PromiseAll([i \in 1..Len(cand) |-> cand[i].result], order)

\* Promise.all resolves and no estimation is successful: onSwap throws
ThrowNoEstimation ==
  /\ pc = "estimating"
  /\ AllSettled
  /\ successfulEstimation(estimatedCalls) = 0
  /\ outcome' = Some([kind |-> "throw", value |-> NoEstimationError(estimatedCalls)])
  /\ pc' = "done"
  /\ UNCHANGED <<ctx, hook, swapCalls, cand, order, sentTxs, response,
                 addedTransactions, consoleErrors>>

\* Promise.all resolves and an estimation is successful: its call is sent
SendTransaction ==
  /\ pc = "estimating"
  /\ AllSettled
  /\ successfulEstimation(estimatedCalls) # 0
  /\ sentTxs' = Append(sentTxs,
        Transaction(estimatedCalls[successfulEstimation(estimatedCalls)], ctx.account))
  /\ pc' = "sending"
  /\ UNCHANGED <<ctx, hook, swapCalls, cand, order, response, addedTransactions,
                 consoleErrors, outcome>>

\* the provider accepts the transaction: it is registered and its hash returned
SendAccepted(hash) ==
  /\ pc = "sending"
  /\ response' = Some([kind |-> "accepted", hash |-> hash])
  /\ addedTransactions' = Append(addedTransactions,
        [response |-> [hash |-> hash], summary |-> Summary(ctx)])
  /\ outcome' = Some([kind |-> "return", value |-> <<hash>>])
  /\ pc' = "done"
  /\ UNCHANGED <<ctx, hook, swapCalls, cand, order, sentTxs, consoleErrors>>

\* the provider rejects the transaction
SendRejected(error) ==
  /\ pc = "sending"
  /\ response' = Some([kind |-> "rejected", error |-> error])
  /\ consoleErrors' =
       IF SendFailureLogged(error)
         THEN Append(consoleErrors,
                [error |-> error,
                 methodName |-> sentTxs[Len(sentTxs)].methodName,
                 args |-> sentTxs[Len(sentTxs)].args,
                 value |-> swapCalls[successfulEstimation(estimatedCalls)].parameters.value])
         ELSE consoleErrors
  /\ outcome' = Some([kind |-> "throw", value |-> SendFailure(error)])
  /\ pc' = "done"
  /\ UNCHANGED <<ctx, hook, swapCalls, cand, order, sentTxs, addedTransactions>>

Init == SwapInit /\ CmpIdle /\ UtilIdle /\ PermitIdle /\ V3Idle /\ HooksIdle

Next ==
  \/ Render /\ UNCHANGED notSwapVars
  \/ InvokeOnSwap /\ UNCHANGED notSwapVars
  \/ \E i \in 1..Len(cand) : ParametersResolved(i) /\ UNCHANGED notSwapVars
  \/ \E i \in 1..Len(cand), gasEstimate \in GasValues :
       EstimateGasSucceeds(i, gasEstimate) /\ UNCHANGED notSwapVars
  \/ \E i \in 1..Len(cand) : EstimateGasFails(i) /\ UNCHANGED notSwapVars
  \/ \E i \in 1..Len(cand) : CallStaticSucceeds(i) /\ UNCHANGED notSwapVars
  \/ \E i \in 1..Len(cand), reason \in Reasons :
       CallStaticReverts(i, reason) /\ UNCHANGED notSwapVars
  \/ ThrowNoEstimation /\ UNCHANGED notSwapVars
  \/ SendTransaction /\ UNCHANGED notSwapVars
  \/ \E hash \in Hashes : SendAccepted(hash) /\ UNCHANGED notSwapVars
  \/ \E error \in SendErrors : SendRejected(error) /\ UNCHANGED notSwapVars

Spec == Init /\ [][Next]_vars

(* ------------------------------------------------------------------ *)
(* w3IsTradeBetter: one call                                           *)
(* ------------------------------------------------------------------ *)

\* no render of the swap hooks
SwapIdle ==
  /\ ctx = [ trade |-> None, allowedSlippage |-> 50, recipientAddressOrName |-> Null,
             ensAddress |-> Null, ensLoading |-> FALSE, tradeVersion |-> v2,
             toggledVersion |-> v2, v1Exchange |-> FALSE, account |-> Null,
             chainId |-> None, library |-> FALSE, deadline |-> None ]
  /\ hook = [state |-> "unrendered", callback |-> FALSE, error |-> Null]
  /\ swapCalls = <<>>
  /\ pc = "unrendered"
  /\ cand = <<>>
  /\ order = <<>>
  /\ sentTxs = <<>>
  /\ response = None
  /\ addedTransactions = <<>>
  /\ consoleErrors = <<>>
  /\ outcome = None

\* the arguments of the call
CmpInit ==
  /\ tradeA \in {None} \cup {Some(t) : t \in ComparedTrades}
  /\ tradeB \in {None} \cup {Some(t) : t \in ComparedTrades}
  /\ minimumDelta \in Deltas
  /\ cmpPc = "called"
  /\ priceRequests = <<>>
  /\ executionPriceA = None
  /\ executionPriceB = None
  /\ cmpResult = None

\* the call runs to one of the three returns on presence
ReturnOnPresence ==
  /\ cmpPc = "called"
  /\ IsSome(PresenceResult(tradeA, tradeB))
  /\ cmpResult' = PresenceResult(tradeA, tradeB)
  /\ cmpPc' = "done"
  /\ UNCHANGED <<tradeA, tradeB, minimumDelta, priceRequests, executionPriceA,
                 executionPriceB>>

\* both trades are there and are not comparable: the call throws
ThrowNotComparable ==
  /\ cmpPc = "called"
  /\ ~IsSome(PresenceResult(tradeA, tradeB))
  /\ NotComparable(Get(tradeA), Get(tradeB))
  /\ cmpResult' = Some(Throw("Trades are not comparable"))
  /\ cmpPc' = "done"
  /\ UNCHANGED <<tradeA, tradeB, minimumDelta, priceRequests, executionPriceA,
                 executionPriceB>>

\* both trades are there and pass the check: tradeA's price is requested
RequestPriceA ==
  /\ cmpPc = "called"
  /\ ~IsSome(PresenceResult(tradeA, tradeB))
  /\ ~NotComparable(Get(tradeA), Get(tradeB))
  /\ priceRequests' = Append(priceRequests, "A")
  /\ cmpPc' = "awaitA"
  /\ UNCHANGED <<tradeA, tradeB, minimumDelta, executionPriceA, executionPriceB,
                 cmpResult>>

\* tradeA's price arrives: tradeB's price is requested
PriceAResolved ==
  /\ cmpPc = "awaitA"
  /\ executionPriceA' = Some(w3TradeExecutionPrice(Get(tradeA)))
  /\ priceRequests' = Append(priceRequests, "B")
  /\ cmpPc' = "awaitB"
  /\ UNCHANGED <<tradeA, tradeB, minimumDelta, executionPriceB, cmpResult>>

\* tradeB's price arrives: the prices are compared and the call returns
PriceBResolved ==
  /\ cmpPc = "awaitB"
  /\ executionPriceB' = Some(w3TradeExecutionPrice(Get(tradeB)))
  /\ cmpResult' = Some(Return(Bool(
        IsBetterByPrice(Get(executionPriceA), w3TradeExecutionPrice(Get(tradeB)),
                        minimumDelta))))
  /\ cmpPc' = "done"
  /\ UNCHANGED <<tradeA, tradeB, minimumDelta, priceRequests, executionPriceA>>

TradeBetterInit == CmpInit /\ SwapIdle /\ UtilIdle /\ PermitIdle /\ V3Idle /\ HooksIdle

TradeBetterNext ==
  \/ ReturnOnPresence /\ UNCHANGED notCmpVars
  \/ ThrowNotComparable /\ UNCHANGED notCmpVars
  \/ RequestPriceA /\ UNCHANGED notCmpVars
  \/ PriceAResolved /\ UNCHANGED notCmpVars
  \/ PriceBResolved /\ UNCHANGED notCmpVars

TradeBetterSpec == TradeBetterInit /\ [][TradeBetterNext]_vars

(* ------------------------------------------------------------------ *)
(* Properties of onSwap and useSwapCallback                            *)
(* ------------------------------------------------------------------ *)

\* the number of candidate calls of the invocation
N == Len(cand)

\* Promise.all has resolved and onSwap has gone on
Selected == pc \in {"sending", "done"}

\* whether candidate i's gas estimation succeeded, as the provider answered
Succeeded(i) == cand[i].estimate = "ok"

\* whether the transaction tx is candidate i's call
IsCallOf(tx, i) ==
  /\ tx.contract = swapCalls[i].contract
  /\ tx.methodName = swapCalls[i].parameters.methodName
  /\ tx.args = swapCalls[i].parameters.args

\* the elements of a sequence
Range(seq) == { seq[k] : k \in 1..Len(seq) }

\* the message of the error candidate i ended with
ErrorOf(i) == Get(cand[i].result).error

\* C1 (as stated): when every candidate succeeds gas estimation, the call
\* that is sent is the last candidate's.
C1_LastSuccessIsSent ==
  (Selected /\ N >= 1 /\ \A i \in 1..N : Succeeded(i))
    => /\ Len(sentTxs) = 1
       /\ IsCallOf(sentTxs[1], N)

\* C1 (amended): when every candidate succeeds gas estimation, the call that
\* is sent is the first candidate's (the standard variant), with the gas
\* limit computed from the first candidate's estimate.
C1_FirstSuccessIsSent ==
  (Selected /\ N >= 1 /\ \A i \in 1..N : Succeeded(i))
    => /\ Len(sentTxs) = 1
       /\ IsCallOf(sentTxs[1], 1)
       /\ sentTxs[1].options.gasLimit = calculateGasMargin(cand[1].gas)

\* two candidates, both estimated, and the transaction is out
C1_Witness ==
  /\ N = 2 /\ Succeeded(1) /\ Succeeded(2)
  /\ cand[1].gas # cand[2].gas
  /\ pc = "sending"

\* C2 (as stated): with outcomes [A: success, B: fail] candidate A is sent
\* and the swap does not end with B's error.
C2_SuccessThenFailSendsFirst ==
  (pc = "done" /\ N = 2 /\ Succeeded(1) /\ ~Succeeded(2))
    => /\ Len(sentTxs) = 1
       /\ IsCallOf(sentTxs[1], 1)
       /\ outcome # Some([kind |-> "throw", value |-> ErrorOf(2)])

\* C2 (amended): with outcomes [A: success, B: fail] no candidate is
\* selected: no transaction is sent and onSwap throws B's error.
C2_SuccessThenFailThrows ==
  (N = 2 /\ AllSettled /\ Succeeded(1) /\ ~Succeeded(2))
    => /\ sentTxs = <<>>
       /\ pc # "sending"
       /\ (pc = "done" => outcome = Some([kind |-> "throw", value |-> ErrorOf(2)]))

\* A estimated, B failed, and onSwap has ended
C2_Witness ==
  /\ N = 2 /\ Succeeded(1) /\ ~Succeeded(2)
  /\ pc = "done"

\* C3: when there are candidates and none succeeds gas estimation, onSwap
\* sends nothing and throws the error of the last candidate in builder
\* order, whatever order the candidates settled in.
C3_AllFailThrowsLastError ==
  (N >= 1 /\ AllSettled /\ \A i \in 1..N : ~Succeeded(i))
    => /\ sentTxs = <<>>
       /\ pc # "sending"
       /\ (pc = "done" => outcome = Some([kind |-> "throw", value |-> ErrorOf(N)]))

\* both candidates failed with different errors, the second settled first
C3_Witness ==
  /\ N = 2 /\ ~Succeeded(1) /\ ~Succeeded(2)
  /\ pc = "done"
  /\ order = <<2, 1>>
  /\ ErrorOf(1) # ErrorOf(2)

\* the candidate the rule selects from the outcomes in builder order: the
\* first that succeeded and is the last or is followed by one that
\* succeeded; 0 when there is none
BuilderOrderChoice ==
  LET ok == { i \in 1..N : Succeeded(i) /\ (i = N \/ Succeeded(i + 1)) }
  IN IF ok = {} THEN 0 ELSE CHOOSE i \in ok : \A j \in ok : i <= j

\* C4: every candidate's estimation is started by the invocation and goes on
\* whatever the other candidates are doing; nothing is selected or sent
\* before every candidate has settled; and what is sent is decided by the
\* outcomes in builder order alone.
C4_FanInBeforeSelection ==
  /\ (Selected \/ sentTxs # <<>>) => AllSettled
  /\ \A i \in 1..N :
       /\ cand[i].pc # "idle"
       /\ (pc = "estimating" /\ cand[i].pc = "parameters") => ENABLED ParametersResolved(i)
       /\ (pc = "estimating" /\ cand[i].pc = "estimateGas") => ENABLED EstimateGasFails(i)
  /\ Selected =>
       IF BuilderOrderChoice = 0
         THEN sentTxs = <<>>
         ELSE Len(sentTxs) = 1 /\ IsCallOf(sentTxs[1], BuilderOrderChoice)

\* the second candidate settled first, while the first was still in flight,
\* and a transaction has been sent since
C4_Witness ==
  /\ N = 2
  /\ order = <<2, 1>>
  /\ Len(sentTxs) = 1

\* C5: a candidate is probed only after its estimation failed; one whose
\* estimation succeeded ends with that gas estimate and is never probed; one
\* whose estimation failed ends with an error, also when the static call
\* succeeds; none ends with both.
C5_CandidateProtocol ==
  \A i \in 1..N :
    /\ (cand[i].pc = "callStatic" \/ cand[i].probe # "none") => cand[i].estimate = "failed"
    /\ Succeeded(i) =>
         /\ cand[i].pc = "settled"
         /\ cand[i].probe = "none"
         /\ HasGasEstimate(Get(cand[i].result))
         /\ Get(cand[i].result).gasEstimate = cand[i].gas
    /\ (cand[i].estimate = "failed" /\ cand[i].pc = "settled") =>
         /\ cand[i].probe # "none"
         /\ HasError(Get(cand[i].result))
    /\ cand[i].pc = "settled" =>
         ~(HasGasEstimate(Get(cand[i].result)) /\ HasError(Get(cand[i].result)))

\* one candidate estimated, the other failed by a static call that succeeded
C5_Witness ==
  /\ N = 2
  /\ Succeeded(1)
  /\ cand[2].probe = "ok" /\ cand[2].pc = "settled"

\* C6: a static call reverting with one of the two router reasons gives the
\* slippage message; any other reason gives the message that the
\* transaction cannot succeed, with the reason in it.
C6_RevertReasonMapping ==
  \A i \in 1..N :
    cand[i].probe = "reverted" =>
      IF cand[i].reason \in { "UniswapV2Router: INSUFFICIENT_OUTPUT_AMOUNT",
                              "UniswapV2Router: EXCESSIVE_INPUT_AMOUNT" }
        THEN ErrorOf(i) = <<"This transaction will not succeed either due to price movement or fee on transfer. Try increasing your slippage tolerance.">>
        ELSE /\ Len(ErrorOf(i)) = 3
             /\ ErrorOf(i)[1] = "The transaction cannot succeed due to error: "
             /\ ErrorOf(i)[2] = cand[i].reason

\* one candidate reverted with a router reason, the other with another
C6_Witness ==
  /\ N = 2
  /\ cand[1].probe = "reverted" /\ cand[1].reason = "UniswapV2Router: EXCESSIVE_INPUT_AMOUNT"
  /\ cand[2].probe = "reverted" /\ cand[2].reason = "TransferHelper: TRANSFER_FROM_FAILED"

\* C7: at most one transaction is sent; it is the call of a candidate whose
\* estimation succeeded and which the rule selected, with that candidate's
\* contract, method and arguments, a gas limit of that candidate's estimate
\* plus the margin, and the value attached only when it is not zero.
C7_SentIsSelectedCall ==
  /\ Len(sentTxs) <= 1
  /\ \A k \in 1..Len(sentTxs) :
       /\ successfulEstimation(estimatedCalls) # 0
       /\ \E i \in 1..N :
            /\ i = successfulEstimation(estimatedCalls)
            /\ Succeeded(i)
            /\ IsCallOf(sentTxs[k], i)
            /\ sentTxs[k].options.gasLimit = calculateGasMargin(cand[i].gas)
            /\ sentTxs[k].options.from = ctx.account
            /\ sentTxs[k].options.value =
                 IF swapCalls[i].parameters.value = HexZero
                   THEN None
                   ELSE Some(swapCalls[i].parameters.value)

\* the second of two candidates is sent, with no value attached, and the
\* two estimates differ
C7_Witness ==
  /\ N = 2
  /\ Len(sentTxs) = 1
  /\ IsCallOf(sentTxs[1], 2)
  /\ sentTxs[1].options.value = None
  /\ cand[1].estimate = "failed"

\* whether the provider accepted the transaction
Accepted == IsSome(response) /\ Get(response).kind = "accepted"

\* C8: a transaction is registered at most once, exactly when the provider
\* accepted the send, with the provider's response, and onSwap returns the
\* hash of that response; the summary names the recipient exactly when the
\* recipient is not the connected account.
C8_RegisteredIffAccepted ==
  /\ Len(addedTransactions) <= 1
  /\ (Len(addedTransactions) = 1) <=> Accepted
  /\ Accepted =>
       /\ addedTransactions[1].response.hash = Get(response).hash
       /\ outcome = Some([kind |-> "return", value |-> <<Get(response).hash>>])
       /\ (" to " \in Range(addedTransactions[1].summary))
             <=> (Recipient(ctx) # ctx.account)
       /\ (Recipient(ctx) # ctx.account) =>
             \E k \in 1..(Len(addedTransactions[1].summary) - 1) :
               /\ addedTransactions[1].summary[k] = " to "
               /\ addedTransactions[1].summary[k + 1] \in
                    { ctx.recipientAddressOrName, shortenAddress(ctx.recipientAddressOrName) }
  /\ (pc = "done" /\ ~Accepted) => addedTransactions = <<>>

\* the send was accepted for a recipient that was given and is the account
\* itself
C8_Witness ==
  /\ Accepted
  /\ ctx.recipientAddressOrName # Null
  /\ Recipient(ctx) = ctx.account

\* whether the provider rejected the transaction
Rejected == IsSome(response) /\ Get(response).kind = "rejected"

\* C9: a rejection with code 4001 makes onSwap throw 'Transaction rejected.'
\* and logs nothing; any other rejection is logged with the method, the
\* arguments and the value and thrown as 'Swap failed: ' with the provider's
\* message; onSwap ends with a hash or with an error.
C9_SendFailureMapping ==
  /\ Rejected =>
       IF Get(response).error.code = <<4001>>
         THEN /\ outcome = Some([kind |-> "throw", value |-> <<"Transaction rejected.">>])
              /\ consoleErrors = <<>>
         ELSE /\ outcome = Some([kind |-> "throw",
                                  value |-> <<"Swap failed: ", Get(response).error.message>>])
              /\ Len(consoleErrors) = 1
              /\ consoleErrors[1].error = Get(response).error
              /\ consoleErrors[1].methodName = sentTxs[1].methodName
              /\ consoleErrors[1].args = sentTxs[1].args
              /\ \E i \in 1..N : /\ IsCallOf(sentTxs[1], i)
                                  /\ consoleErrors[1].value = swapCalls[i].parameters.value
  /\ ~Rejected => consoleErrors = <<>>
  /\ pc = "done" =>
       /\ IsSome(outcome)
       /\ (Get(outcome).kind = "return") <=> Accepted
       /\ (Get(outcome).kind = "throw") <=> ~Accepted

\* the user rejected the transaction and onSwap has ended
C9_Witness ==
  /\ Rejected
  /\ Get(response).error.code = <<4001>>
  /\ pc = "done"

\* whether the recipient is known: none was given, or an address was given,
\* or the name that was given has an address
RecipientResolved ==
  \/ ctx.recipientAddressOrName = Null
  \/ ctx.recipientAddressOrName \in Accounts
  \/ ctx.ensAddress # Null

\* whether the trade, the provider, the account and the chain are there
DependenciesPresent ==
  /\ ctx.trade # None
  /\ ctx.library
  /\ ctx.account # Null
  /\ ctx.chainId # None

\* C10: the state is INVALID with no callback when the trade, the provider,
\* the account or the chain is missing; it is VALID with a callback when
\* they are present and the recipient is resolved, whatever the candidate
\* list is; there is a callback exactly when the state is VALID.
C10_StateGating ==
  pc # "unrendered" =>
    /\ ~DependenciesPresent => (hook.state = INVALID /\ ~hook.callback)
    /\ (DependenciesPresent /\ RecipientResolved) => (hook.state = VALID /\ hook.callback)
    /\ hook.callback <=> (hook.state = VALID)

\* the callback is offered although there is no candidate call
C10_Witness ==
  /\ pc = "rendered"
  /\ hook.state = VALID
  /\ hook.callback
  /\ swapCalls = <<>>

\* whether a name was given whose lookup is still pending
ResolutionPending ==
  /\ ctx.recipientAddressOrName \in Names
  /\ ctx.ensAddress = Null
  /\ ctx.ensLoading

\* C11: the state is LOADING while the name that was given is still being
\* resolved and the rest of the context is present, and in no other
\* situation.
C11_LoadingWhilePending ==
  pc # "unrendered" =>
    /\ (DependenciesPresent /\ ResolutionPending) => hook.state = LOADING
    /\ (hook.state = LOADING) => (DependenciesPresent /\ ResolutionPending)

\* the message of the generic error of onSwap
GenericError ==
  <<"Unexpected error. Please contact support: none of the calls threw an error">>

\* C12: an invocation of the callback never throws the generic error: one
\* that sends nothing has captured the error of a candidate and throws it.
C12_GenericFaultUnreachable ==
  (pc = "done" /\ sentTxs = <<>>) =>
    /\ Get(outcome).value # GenericError
    /\ \E i \in 1..N : /\ HasError(Get(cand[i].result))
                        /\ Get(outcome).value = ErrorOf(i)

\* whether the builder has all of its inputs for a V2 trade
CompleteV2Inputs ==
  /\ DependenciesPresent
  /\ RecipientResolved
  /\ ctx.deadline # None
  /\ ctx.toggledVersion = v2

\* C13: for complete inputs of a V2 trade the list starts with the standard
\* call; the fee-on-transfer variant of the same trade, with the same
\* slippage, recipient and deadline, follows exactly when the trade is
\* EXACT_INPUT; every call is on the same contract.
C13_BuilderCandidates ==
  (pc # "unrendered" /\ CompleteV2Inputs) =>
    /\ Len(swapCalls) = IF Get(ctx.trade).tradeType = EXACT_INPUT THEN 2 ELSE 1
    /\ swapCalls[1].options.feeOnTransfer = FALSE
    /\ swapCalls[1].options.deadline = Get(ctx.deadline)
    /\ swapCalls[1].options.allowedSlippage = <<ctx.allowedSlippage, "/", 10000>>
    /\ Len(swapCalls) = 2 =>
         swapCalls[2].options = [swapCalls[1].options EXCEPT !.feeOnTransfer = TRUE]
    /\ \A i \in 1..Len(swapCalls) :
         /\ swapCalls[i].contract = swapCalls[1].contract
         /\ swapCalls[i].parameters =
              w3SwapCallParameters(Get(ctx.trade), swapCalls[i].options)

\* an EXACT_INPUT trade to a named recipient gave two calls
C13_Witness ==
  /\ pc = "rendered"
  /\ CompleteV2Inputs
  /\ ctx.recipientAddressOrName \in Names
  /\ Len(swapCalls) = 2

\* C14: when the deadline, the trade, the recipient, the provider, the
\* account, the chain or the contract is missing, the list is empty.
C14_IncompleteInputsNoCalls ==
  (/\ pc # "unrendered"
   /\ \/ ctx.deadline = None
      \/ ctx.trade = None
      \/ ~RecipientResolved
      \/ ~ctx.library
      \/ ctx.account = Null
      \/ ctx.chainId = None
      \/ (ctx.toggledVersion = v1 /\ ~ctx.v1Exchange))
    => swapCalls = <<>>

\* only the deadline is missing
C14_Witness ==
  /\ pc = "rendered"
  /\ DependenciesPresent
  /\ RecipientResolved
  /\ ctx.toggledVersion = v2
  /\ ctx.deadline = None
  /\ swapCalls = <<>>

\* C15: with no recipient given every call goes to the account; with one
\* given every call goes to its address; a name without an address gives
\* INVALID, 'Invalid recipient', no callback and no call.
C15_RecipientResolution ==
  pc # "unrendered" =>
    /\ \A i \in 1..Len(swapCalls) :
         /\ swapCalls[i].options.recipient =
              IF ctx.recipientAddressOrName = Null THEN ctx.account
              ELSE IF ctx.recipientAddressOrName \in Accounts
                     THEN ctx.recipientAddressOrName
              ELSE ctx.ensAddress
         /\ swapCalls[i].options.recipient # Null
    /\ (DependenciesPresent /\ ~RecipientResolved) =>
         /\ hook = [state |-> INVALID, callback |-> FALSE, error |-> "Invalid recipient"]
         /\ swapCalls = <<>>

\* two calls to the address of a name, which is not the account
C15_Witness ==
  /\ pc = "rendered"
  /\ ctx.recipientAddressOrName \in Names
  /\ Len(swapCalls) = 2
  /\ swapCalls[2].options.recipient = ctx.ensAddress
  /\ ctx.ensAddress # ctx.account

(* ------------------------------------------------------------------ *)
(* Properties of w3IsTradeBetter                                       *)
(* ------------------------------------------------------------------ *)

\* the call has ended
CmpDone == cmpPc = "done"

\* both trades are there
BothPresent == tradeA # None /\ tradeB # None

\* both trades are there, of one type, with the same input currency and the
\* same output currency
Comparable ==
  /\ BothPresent
  /\ Get(tradeA).tradeType = Get(tradeB).tradeType
  /\ Get(tradeA).inputCurrency = Get(tradeB).inputCurrency
  /\ Get(tradeA).outputCurrency = Get(tradeB).outputCurrency

\* C16 (as stated): with tradeA present and tradeB absent the result is
\* true, with tradeA absent and tradeB present it is false.
C16_PresentFirstIsTrue ==
  CmpDone =>
    /\ (tradeA # None /\ tradeB = None) => cmpResult = Some(Return("true"))
    /\ (tradeA = None /\ tradeB # None) => cmpResult = Some(Return("false"))

\* C16 (amended): with tradeA present and tradeB absent the result is
\* false, with tradeA absent and tradeB present it is true, for every
\* minimum delta and without a price being requested: true reads 'tradeB is
\* better'.
C16_PresentSecondIsTrue ==
  CmpDone =>
    /\ (tradeA # None /\ tradeB = None) =>
         (cmpResult = Some(Return("false")) /\ priceRequests = <<>>)
    /\ (tradeA = None /\ tradeB # None) =>
         (cmpResult = Some(Return("true")) /\ priceRequests = <<>>)

\* only tradeB is there, the delta is positive, and the call has ended
C16_Witness ==
  /\ CmpDone
  /\ tradeA = None /\ tradeB # None
  /\ minimumDelta.n > 0

\* C17: when both trades are there and their types differ, the call throws
\* 'Trades are not comparable' and no execution price is requested.
C17_TypesDifferThrows ==
  (BothPresent /\ Get(tradeA).tradeType # Get(tradeB).tradeType) =>
    /\ priceRequests = <<>>
    /\ cmpPc \in {"called", "done"}
    /\ CmpDone => cmpResult = Some(Throw("Trades are not comparable"))

\* two trades that differ in their type only, and the call has ended
C17_Witness ==
  /\ CmpDone
  /\ BothPresent
  /\ Get(tradeA).tradeType # Get(tradeB).tradeType
  /\ Get(tradeA).inputCurrency = Get(tradeB).inputCurrency
  /\ Get(tradeA).outputCurrency = Get(tradeB).outputCurrency

\* C18: when both trades are there and their input currencies or their
\* output currencies differ, the call throws 'Trades are not comparable'.
C18_CurrenciesDifferThrows ==
  (/\ CmpDone
   /\ BothPresent
   /\ \/ Get(tradeA).inputCurrency # Get(tradeB).inputCurrency
      \/ Get(tradeA).outputCurrency # Get(tradeB).outputCurrency)
    => cmpResult = Some(Throw("Trades are not comparable"))

\* whether the price the wrapper gave for tradeA is lower than tradeB's
PriceALower ==
  Get(executionPriceA).n * Get(executionPriceB).d
    < Get(executionPriceB).n * Get(executionPriceA).d

\* C19: with a minimum delta of 0, on comparable trades, the result is true
\* exactly when tradeA's execution price is lower than tradeB's; it is
\* false for equal prices and is not true in both orders of the arguments.
C19_ZeroDeltaStrictlyLower ==
  (CmpDone /\ Comparable /\ minimumDelta.n = 0) =>
    /\ cmpResult = Some(Return(Bool(PriceALower)))
    /\ (Get(executionPriceA).n * Get(executionPriceB).d
          = Get(executionPriceB).n * Get(executionPriceA).d)
         => cmpResult = Some(Return("false"))
    /\ cmpResult = Some(Return("true"))
         => w3IsTradeBetter(tradeB, tradeA, minimumDelta) = Return("false")

\* two different comparable trades of the same execution price
C19_Witness ==
  /\ CmpDone /\ Comparable /\ minimumDelta.n = 0
  /\ tradeA # tradeB
  /\ Get(tradeA).outputAmount * Get(tradeB).inputAmount
       = Get(tradeB).outputAmount * Get(tradeA).inputAmount

\* whether tradeA's price times (1 + delta) is lower than tradeB's
PriceALowerByDelta ==
  Get(executionPriceA).n * (minimumDelta.d + minimumDelta.n) * Get(executionPriceB).d
    < Get(executionPriceB).n * Get(executionPriceA).d * minimumDelta.d

\* C20: with a positive minimum delta, on comparable trades, the result is
\* true exactly when tradeA's price times (1 + delta) is lower than
\* tradeB's; a true result means a true result for a delta of 0.
C20_PositiveDeltaThreshold ==
  (CmpDone /\ Comparable /\ minimumDelta.n > 0) =>
    /\ cmpResult = Some(Return(Bool(PriceALowerByDelta)))
    /\ cmpResult = Some(Return("true")) =>
         /\ PriceALower
         /\ w3IsTradeBetter(tradeA, tradeB, W3_ZERO_PERCENT) = Return("true")

\* tradeA's price is lower than tradeB's, but by no more than the delta
C20_Witness ==
  /\ CmpDone /\ Comparable /\ minimumDelta.n > 0
  /\ PriceALower
  /\ cmpResult = Some(Return("false"))

(* ------------------------------------------------------------------ *)
(* utils/trades: the price breakdowns and the severity of one trade    *)
(* ------------------------------------------------------------------ *)

\* the impacts warningSeverity is asked about, besides those of the trades
SeverityInputs ==
  PriceImpacts \cup { Dec(-1, 100), Dec(2, 100), Dec(4, 100), Dec(10, 100), Dec(20, 100) }

\* the trade the functions are called with
UtilInit ==
  /\ utilTrade \in {None} \cup {Some(t) : t \in PricedTrades}
  /\ utilPc = "called"
  /\ breakdown = None
  /\ w3slippage = None
  /\ w3breakdown = None
  /\ impactGiven = None
  /\ severity = None

\* computeTradePriceBreakdown(trade), a synchronous call
ComputeTradePriceBreakdown ==
  /\ utilPc # "idle"
  /\ breakdown = None
  /\ breakdown' = Some(computeTradePriceBreakdown(utilTrade))
  /\ UNCHANGED <<utilTrade, utilPc, w3slippage, w3breakdown, impactGiven, severity>>

\* w3computeTradePriceBreakdown(client, trade) without a trade: no await
W3BreakdownWithoutTrade ==
  /\ utilPc = "called"
  /\ ~IsSome(utilTrade)
  /\ w3breakdown' = Some(w3computeTradePriceBreakdown(utilTrade, w3slippage))
  /\ utilPc' = "done"
  /\ UNCHANGED <<utilTrade, breakdown, w3slippage, impactGiven, severity>>

\* w3computeTradePriceBreakdown(client, trade): await w3TradeSlippage
W3RequestSlippage ==
  /\ utilPc = "called"
  /\ IsSome(utilTrade) /\ IsSome(realizedLPFee(utilTrade))
  /\ utilPc' = "awaitSlippage"
  /\ UNCHANGED <<utilTrade, breakdown, w3slippage, w3breakdown, impactGiven, severity>>

\* the wrapper answers with the slippage of the trade; the function returns
W3SlippageResolved ==
  /\ utilPc = "awaitSlippage"
  /\ w3slippage' = Some(Get(utilTrade).priceImpact)
  /\ w3breakdown' = Some(w3computeTradePriceBreakdown(utilTrade, w3slippage'))
  /\ utilPc' = "done"
  /\ UNCHANGED <<utilTrade, breakdown, impactGiven, severity>>

\* warningSeverity(priceImpact), for an impact given or undefined
WarningSeverity(priceImpact) ==
  /\ utilPc # "idle"
  /\ impactGiven' = Some(priceImpact)
  /\ severity' = Some(warningSeverity(priceImpact))
  /\ UNCHANGED <<utilTrade, utilPc, breakdown, w3slippage, w3breakdown>>

\* warningSeverity of the impact without fee the breakdown answered
WarningSeverityOfBreakdown ==
  /\ utilPc = "done"
  /\ impactGiven' = Some(Get(w3breakdown).priceImpactWithoutFee)
  /\ severity' = Some(warningSeverity(Get(w3breakdown).priceImpactWithoutFee))
  /\ UNCHANGED <<utilTrade, utilPc, breakdown, w3slippage, w3breakdown>>

TradeUtilsInit == UtilInit /\ SwapIdle /\ CmpIdle /\ PermitIdle /\ V3Idle /\ HooksIdle

TradeUtilsNext ==
  \/ ComputeTradePriceBreakdown /\ UNCHANGED notUtilVars
  \/ W3BreakdownWithoutTrade /\ UNCHANGED notUtilVars
  \/ W3RequestSlippage /\ UNCHANGED notUtilVars
  \/ W3SlippageResolved /\ UNCHANGED notUtilVars
  \/ \E priceImpact \in {None} \cup {Some(x) : x \in SeverityInputs} :
       WarningSeverity(priceImpact) /\ UNCHANGED notUtilVars
  \/ WarningSeverityOfBreakdown /\ UNCHANGED notUtilVars

TradeUtilsSpec == TradeUtilsInit /\ [][TradeUtilsNext]_vars

(* ------------------------------------------------------------------ *)
(* Properties of utils/trades                                          *)
(* ------------------------------------------------------------------ *)

Thresholds ==
  { W3ALLOWED_PRICE_IMPACT_LOW, W3ALLOWED_PRICE_IMPACT_MEDIUM,
    W3ALLOWED_PRICE_IMPACT_HIGH, W3BLOCKED_PRICE_IMPACT_NON_EXPERT }

\* x <= y
DecAtMost(x, y) == ~DecLessThan(y, x)

\* how many thresholds are less than or equal to the impact
ThresholdsReached(impact) ==
  Cardinality({ t \in Thresholds : DecAtMost(t, impact) })

\* C21: the severity is in 0..4 and does not decrease as the impact grows;
\* for a defined impact it is the number of thresholds less than or equal
\* to the impact (an impact equal to a threshold reaches its severity); for
\* an undefined impact it is 4.
C21_SeverityCountsThresholds ==
  IsSome(severity) =>
    /\ Get(severity) \in 0..4
    /\ ~IsSome(Get(impactGiven)) => Get(severity) = 4
    /\ IsSome(Get(impactGiven)) =>
         /\ Get(severity) = ThresholdsReached(Get(Get(impactGiven)))
         /\ \A y \in SeverityInputs :
              /\ DecAtMost(Get(Get(impactGiven)), y)
                   => Get(severity) <= warningSeverity(Some(y))
              /\ DecAtMost(y, Get(Get(impactGiven)))
                   => warningSeverity(Some(y)) <= Get(severity)

\* the severity of an impact equal to the medium threshold has been computed
C21_Witness ==
  /\ impactGiven = Some(Some(W3ALLOWED_PRICE_IMPACT_MEDIUM))
  /\ severity = Some(2)

RECURSIVE Pow(_, _)
Pow(b, e) == IF e = 0 THEN 1 ELSE b * Pow(b, e - 1)

\* 1 - 0.997^n
CompoundedFee(n) == Norm(Dec(Pow(1000, n) - Pow(997, n), Pow(1000, n)))

\* the fee fraction a breakdown took off the price impact of the trade
FeeTakenOff(b) ==
  DecSub(Get(utilTrade).priceImpact, Get(b.priceImpactWithoutFee))

Settle(c) ==
  LET d == IF c.fromTrade
             THEN [c EXCEPT !.spender = swapRouterAddress(c.chainId, c.trade),
                            !.overridePermitInfo = None]
             ELSE c
  IN  IF tokenAddress(d) = Null THEN [d EXCEPT !.tokenNonceState = NoContract] ELSE d

\* the first render: a complete context, used directly or from a trade
PermitInit ==
  /\ \E amount \in { a \in CurrencyAmounts : a.quotient = 100 /\ a.address \in {"USDC", "DAI"} },
        fromTrade \in BOOLEAN,
        override \in {None} \cup {Some(o) : o \in OverridePermitInfos},
        trade \in {Some("PolyTrade"), Some("RouterTrade")} :
       /\ fromTrade => override = None
       /\ ~fromTrade => trade = Some("PolyTrade")
       /\ permitCtx = Settle(
            [ isArgentWallet |-> FALSE, currencyAmount |-> Some(amount),
              spender |-> V3_ROUTER_ADDRESS, transactionDeadline |-> Some(1000),
              overridePermitInfo |-> override, account |-> "0xA11ce",
              chainId |-> Some(Mainnet), provider |-> TRUE,
              trade |-> IF fromTrade THEN trade ELSE None, fromTrade |-> fromTrade,
              tokenNonceState |-> [contract |-> TRUE, valid |-> TRUE,
                                   loading |-> FALSE, result |-> Some(0)] ])
  /\ signatureData = None
  /\ permit = useERC20Permit(permitCtx, signatureData)
  /\ signing = {}
  /\ contextChanges = 0

\* an input of the hook changes and the memo is computed again
Rerender(c) ==
  /\ permit.state # "unrendered"
  /\ contextChanges < MaxContextChanges
  /\ Settle(c) # permitCtx
  /\ permitCtx' = Settle(c)
  /\ permit' = useERC20Permit(permitCtx', signatureData)
  /\ contextChanges' = contextChanges + 1
  /\ UNCHANGED <<signatureData, signing>>

SetArgentWallet(b) == Rerender([permitCtx EXCEPT !.isArgentWallet = b])

SetCurrencyAmount(a) == Rerender([permitCtx EXCEPT !.currencyAmount = a])

SetSpender(s) ==
  /\ ~permitCtx.fromTrade
  /\ Rerender([permitCtx EXCEPT !.spender = s])

SetTrade(t) ==
  /\ permitCtx.fromTrade
  /\ Rerender([permitCtx EXCEPT !.trade = t])

SetTransactionDeadline(d) == Rerender([permitCtx EXCEPT !.transactionDeadline = d])

SetOverridePermitInfo(o) ==
  /\ ~permitCtx.fromTrade
  /\ Rerender([permitCtx EXCEPT !.overridePermitInfo = o])

SetAccount(a) == Rerender([permitCtx EXCEPT !.account = a])

SetChainId(id) == Rerender([permitCtx EXCEPT !.chainId = id])

SetProvider(b) == Rerender([permitCtx EXCEPT !.provider = b])

SetTokenNonceState(n) == Rerender([permitCtx EXCEPT !.tokenNonceState = n])

\* gatherPermitSignature(): the message is built from the values of this
\* render and handed to the wallet
GatherPermitSignature ==
  /\ permit.gatherPermitSignature
  /\ Cardinality(signing) < MaxSigningRequests
  /\ SignatureFor(permitCtx) \notin signing
  /\ signing' = signing \cup {SignatureFor(permitCtx)}
  /\ UNCHANGED <<permitCtx, signatureData, permit, contextChanges>>

\* the wallet signs: setSignatureData, and the memo is computed again
WalletSigns(request) ==
  /\ request \in signing
  /\ signatureData' = Some(request)
  /\ signing' = signing \ {request}
  /\ permit' = useERC20Permit(permitCtx, signatureData')
  /\ UNCHANGED <<permitCtx, contextChanges>>

\* the wallet refuses: nothing is stored
WalletRefuses(request) ==
  /\ request \in signing
  /\ signing' = signing \ {request}
  /\ UNCHANGED <<permitCtx, signatureData, permit, contextChanges>>

PermitSpecInit == PermitInit /\ SwapIdle /\ CmpIdle /\ UtilIdle /\ V3Idle /\ HooksIdle

PermitNext ==
  \/ \E b \in BOOLEAN : SetArgentWallet(b) /\ UNCHANGED notPermitVars
  \/ \E a \in {None} \cup {Some(x) : x \in CurrencyAmounts} :
       SetCurrencyAmount(a) /\ UNCHANGED notPermitVars
  \/ \E s \in {Null} \cup Spenders : SetSpender(s) /\ UNCHANGED notPermitVars
  \/ \E t \in {None} \cup {Some(k) : k \in TradeKinds} :
       SetTrade(t) /\ UNCHANGED notPermitVars
  \/ \E d \in {None} \cup {Some(x) : x \in TransactionDeadlines} :
       SetTransactionDeadline(d) /\ UNCHANGED notPermitVars
  \/ \E o \in {None} \cup {Some(x) : x \in OverridePermitInfos} :
       SetOverridePermitInfo(o) /\ UNCHANGED notPermitVars
  \/ \E a \in {Null} \cup Accounts : SetAccount(a) /\ UNCHANGED notPermitVars
  \/ \E id \in {None, Some(Mainnet)} : SetChainId(id) /\ UNCHANGED notPermitVars
  \/ \E b \in BOOLEAN : SetProvider(b) /\ UNCHANGED notPermitVars
  \/ \E n \in TokenNonceStates : SetTokenNonceState(n) /\ UNCHANGED notPermitVars
  \/ GatherPermitSignature /\ UNCHANGED notPermitVars
  \/ \E request \in signing : WalletSigns(request) /\ UNCHANGED notPermitVars
  \/ \E request \in signing : WalletRefuses(request) /\ UNCHANGED notPermitVars

PermitSpec == PermitSpecInit /\ [][PermitNext]_vars

(* ------------------------------------------------------------------ *)
(* Properties of useERC20Permit                                        *)
(* ------------------------------------------------------------------ *)

\* the hook has rendered
PermitRendered == permit.state # "unrendered"

\* the token has an entry in the allow-list of the active chain
OnAllowList ==
  /\ IsSome(permitCtx.chainId)
  /\ tokenAddress(permitCtx) # Null
  /\ IsSome(PERMITTABLE_TOKENS(Get(permitCtx.chainId), tokenAddress(permitCtx)))

\* the stored signature was given for another owner, token, spender, nonce
\* or, being of the amount type, another amount than the current ones
Diverged ==
  /\ IsSome(signatureData)
  /\ \/ Get(signatureData).owner # permitCtx.account
     \/ Get(signatureData).tokenAddress # tokenAddress(permitCtx)
     \/ Get(signatureData).spender # permitCtx.spender
     \/ Some(Get(signatureData).nonce) # permitCtx.tokenNonceState.result
     \/ /\ "amount" \in DOMAIN Get(signatureData)
        /\ \/ ~IsSome(permitCtx.currencyAmount)
           \/ Get(signatureData).amount
                # QuotientToString(Get(permitCtx.currencyAmount).quotient)

\* the deadline of the stored signature is not before the current one
DeadlineNotPassed ==
  /\ IsSome(signatureData)
  /\ IsSome(permitCtx.transactionDeadline)
  /\ Get(signatureData).deadline >= Get(permitCtx.transactionDeadline)

InputMissing ==
  \/ permitCtx.isArgentWallet
  \/ ~IsSome(permitCtx.currencyAmount)
  \/ tokenAddress(permitCtx) = Null
  \/ permitCtx.spender = Null
  \/ permitCtx.account = Null
  \/ ~IsSome(permitCtx.chainId)
  \/ ~IsSome(permitCtx.transactionDeadline)
  \/ ~permitCtx.provider
  \/ (~OnAllowList /\ ~IsSome(permitCtx.overridePermitInfo))

\* C25: NOT_APPLICABLE is reported whenever the wallet is an Argent wallet,
\* one of amount, token address, spender, account, chain, deadline, provider
\* is missing, or the token has no allow-list entry and no override is given;
\* with an override a token without an entry is applicable; a V2 trade has
\* no spender and is never applicable.
C25_NotApplicable ==
  PermitRendered =>
    /\ InputMissing =>
         permit = [state |-> NOT_APPLICABLE, signatureData |-> None,
                   gatherPermitSignature |-> FALSE]
    /\ (/\ ~InputMissing
        /\ ~OnAllowList
        /\ permitCtx.tokenNonceState.contract
        /\ permitCtx.tokenNonceState.valid) => permit.state # NOT_APPLICABLE
    /\ (permitCtx.fromTrade /\ permitCtx.trade = Some("V2Trade")) =>
         /\ permitCtx.spender = Null
         /\ permit.state = NOT_APPLICABLE

\* a V2 trade whose token has an entry and whose nonce is known
C25_Witness ==
  /\ permitCtx.fromTrade /\ permitCtx.trade = Some("V2Trade")
  /\ OnAllowList
  /\ IsSome(permitCtx.tokenNonceState.result)
  /\ ~permitCtx.tokenNonceState.loading
  /\ permit.state = NOT_APPLICABLE

\* the nonce of the owner is loading or has no numeric value
NonceUnresolved ==
  permitCtx.tokenNonceState.loading \/ ~IsSome(permitCtx.tokenNonceState.result)

\* C26: when the permit is applicable, LOADING is reported exactly while the
\* nonce is loading or has no numeric value; NOT_APPLICABLE goes before
\* LOADING; SIGNED and NOT_SIGNED are not reported before the nonce has
\* resolved, whatever signature is stored.
C26_LoadingWhileNonceUnresolved ==
  PermitRendered =>
    /\ permit.state # NOT_APPLICABLE => (permit.state = LOADING <=> NonceUnresolved)
    /\ (InputMissing /\ NonceUnresolved) => permit.state = NOT_APPLICABLE
    /\ NonceUnresolved =>
         /\ permit.state \notin {SIGNED, NOT_SIGNED}
         /\ permit.signatureData = None
         /\ ~permit.gatherPermitSignature

\* a signature for the current context is stored while the nonce is fetched
\* again
C26_Witness ==
  /\ permit.state = LOADING
  /\ IsSome(signatureData)
  /\ ~Diverged
  /\ DeadlineNotPassed
  /\ permitCtx.tokenNonceState.loading

\* the stored signature fits the current owner, token, spender, nonce and
\* amount, and a signature state is reported
OnlyDeadlineMoved ==
  /\ IsSome(signatureData)
  /\ ~Diverged
  /\ permit.state \in {SIGNED, NOT_SIGNED}

\* C27: the signature requested and stored has the deadline of the current
\* transaction deadline plus 1200 seconds; with the rest of the context as
\* signed, it stays SIGNED while the transaction deadline is at most that
\* deadline, that is at most 1200 seconds after the one signed under, and is
\* NOT_SIGNED beyond.
C27_DeadlineBuffer ==
  /\ [][ /\ \A request \in signing' \ signing :
              request.deadline = Get(permitCtx.transactionDeadline) + 1200
         /\ signatureData' # signatureData =>
              \E request \in signing : signatureData' = Some(request) ]_vars
  /\ [](OnlyDeadlineMoved =>
          (permit.state = SIGNED <=>
             Get(permitCtx.transactionDeadline) <= Get(signatureData).deadline))

\* signed under the deadline 1000, still SIGNED at the deadline 2200
C27_Witness ==
  /\ permit.state = SIGNED
  /\ Get(signatureData).deadline = 2200
  /\ permitCtx.transactionDeadline = Some(2200)

\* C36 (as stated): a signature that arrives late does not replace the
\* stored one: once SIGNED is reported for a context it stays SIGNED while
\* that context is unchanged.
C36_SignedStaysSigned ==
  [][ (permit.state = SIGNED /\ permitCtx' = permitCtx) => permit'.state = SIGNED ]_vars

\* a request made for an earlier context is still with the wallet while the
\* signature of the current context is stored and reported
C36_StaleRequestPending ==
  /\ permit.state = SIGNED
  /\ \E request \in signing : ~isSignatureDataValid(permitCtx, Some(request))

\* the hook returns something of the shape the memo builds
ResultShape ==
  /\ IsSome(permit.signatureData) <=> permit.state = SIGNED
  /\ permit.gatherPermitSignature <=> permit.state \in {NOT_SIGNED, SIGNED}
  /\ permit.state = SIGNED => permit.signatureData = signatureData

\* C37: in every result of useERC20Permit signatureData is non-null exactly
\* when the state is SIGNED and gatherPermitSignature is non-null exactly
\* when the state is NOT_SIGNED or SIGNED; the stored signature changes only
\* to the signature of a request the wallet has signed, and a refused
\* request leaves the stored signature and the result as they were.
C37_ResultShape ==
  /\ [](PermitRendered => ResultShape)
  /\ [][ /\ signatureData' # signatureData =>
              \E request \in signing :
                /\ signatureData' = Some(request)
                /\ signing' = signing \ {request}
         /\ (signing' # signing /\ signing' \subseteq signing
               /\ signatureData' = signatureData) => permit' = permit ]_vars

\* a stored signature that is no longer valid is not handed out, and the
\* wallet has been asked for a new one
C37_Witness ==
  /\ permit.state = NOT_SIGNED
  /\ IsSome(signatureData)
  /\ permit.signatureData = None
  /\ permit.gatherPermitSignature
  /\ signing # {}

(* ------------------------------------------------------------------ *)
(* useClientSideV3Trade: renders, effects, promises                    *)
(* ------------------------------------------------------------------ *)

\* the call data asked for and the trade asked for, where not canceled
calldataPromise == CurrentOf(calldataPromises)

tradePromise == CurrentOf(tradePromises)

\* the first effect: cancel the call data asked for; without an amount set
\* the call data to [], else ask the wrapper for the call data of every route
calldataEffect(in, rts) ==
  IF ~IsSome(in.amountSpecified)
    THEN [callParams |-> <<>>, calldataPromise |-> None]
    ELSE [ callParams |-> callParams,
           calldataPromise |-> Some([ routes |-> rts, tradeType |-> in.tradeType,
                                      amount |-> Get(in.amountSpecified) ]) ]

\* the first render and its effects; the result starts as LOADING
V3Init ==
  /\ v3in \in [ tradeType : {EXACT_INPUT, EXACT_OUTPUT},
                 amountSpecified : {None} \cup {Some(a) : a \in AmountsSpecified},
                 otherCurrency : {None} \cup {Some(c) : c \in V3Currencies} ]
  /\ routes \in RouteLists
  /\ routesLoading \in BOOLEAN
  /\ callParams = <<>>
  /\ calldataPromises = runEffect({}, calldataEffect(v3in, routes).calldataPromise)
  /\ quotesResults = <<>>
  /\ v3result = tradeEffect(v3in, routes, routesLoading, quotesResults,
                            [state |-> LOADING, trade |-> None]).result
  /\ tradePromises =
       runEffect({}, tradeEffect(v3in, routes, routesLoading, quotesResults,
                                 [state |-> LOADING, trade |-> None]).tradePromise)
  /\ inputChanges = 0
  /\ v3mounted = TRUE

\* a render with changed inputs or routes: the first effect runs if one of
\* its dependencies changed, the second runs
V3Render(in, rts, rl) ==
  /\ v3mounted
  /\ inputChanges < MaxInputChanges
  /\ <<in, rts, rl>> # <<v3in, routes, routesLoading>>
  /\ v3in' = in
  /\ routes' = rts
  /\ routesLoading' = rl
  /\ inputChanges' = inputChanges + 1
  /\ IF in.amountSpecified # v3in.amountSpecified \/ in.tradeType # v3in.tradeType
        \/ rts # routes
       THEN /\ callParams' = calldataEffect(in, rts).callParams
            /\ calldataPromises' =
                 runEffect(calldataPromises, calldataEffect(in, rts).calldataPromise)
       ELSE UNCHANGED <<callParams, calldataPromises>>
  /\ quotesResults' = IF callParams' = callParams THEN quotesResults ELSE <<>>
  /\ v3result' = tradeEffect(in, rts, rl, quotesResults', v3result).result
  /\ tradePromises' =
       runEffect(tradePromises, tradeEffect(in, rts, rl, quotesResults', v3result).tradePromise)
  /\ UNCHANGED v3mounted

SetTradeType(tradeType) ==
  V3Render([v3in EXCEPT !.tradeType = tradeType], routes, routesLoading)

SetAmountSpecified(amount) ==
  V3Render([v3in EXCEPT !.amountSpecified = amount], routes, routesLoading)

SetOtherCurrency(currency) ==
  V3Render([v3in EXCEPT !.otherCurrency = currency], routes, routesLoading)

SetRoutes(rts, rl) == V3Render(v3in, rts, rl)

\* Promise.all(calldatas): the call data of every route asked for, undefined
\* where the wrapper failed
calldatas(request, failed) ==
  [ k \in 1..Len(request.routes) |->
      IF request.routes[k].id \in failed THEN None
      ELSE Some([ route |-> request.routes[k].id, tradeType |-> request.tradeType,
                  amount |-> request.amount ]) ]

\* params.filter((v) => v !== undefined)
definedParams(params) ==
  LET defined == SelectSeq(params, IsSome)
  IN  [k \in 1..Len(defined) |-> Get(defined[k])]

\* Promise.all(calldatas) resolves, the wrapper having failed for some of
\* the routes: unless canceled, setCallParams, the quoter is called anew,
\* the second effect runs
CalldataResolved(p, failed, quoter) ==
  /\ p \in calldataPromises
  /\ calldataPromises' = calldataPromises \ {p}
  /\ IF ~IsSome(resolved(p, calldatas(p.payload, failed)))
       THEN UNCHANGED <<callParams, quotesResults, v3result, tradePromises>>
       ELSE /\ callParams' = definedParams(Get(resolved(p, calldatas(p.payload, failed))))
            /\ quotesResults' = [ k \in 1..Len(callParams') |->
                                    IF quoter THEN QuoteLoading ELSE QuoteInvalid ]
            /\ v3result' =
                 tradeEffect(v3in, routes, routesLoading, quotesResults', v3result).result
            /\ tradePromises' =
                 runEffect(tradePromises,
                           tradeEffect(v3in, routes, routesLoading, quotesResults',
                                       v3result).tradePromise)
  /\ UNCHANGED <<v3in, routes, routesLoading, inputChanges, v3mounted>>

\* a call of the quoter answers, with an amount or without a result; the
\* second effect runs
QuoteResolved(k, amount) ==
  /\ v3mounted
  /\ k \in 1..Len(quotesResults)
  /\ quotesResults[k].loading
  /\ quotesResults' =
       [ quotesResults EXCEPT ![k] =
           [ valid |-> TRUE, loading |-> FALSE,
             result |-> IF IsSome(amount)
                          THEN Some([ kind |-> IF callParams[k].tradeType = EXACT_INPUT
                                                 THEN "amountOut" ELSE "amountIn",
                                      amount |-> Get(amount) ])
                          ELSE None ] ]
  /\ v3result' = tradeEffect(v3in, routes, routesLoading, quotesResults', v3result).result
  /\ tradePromises' =
       runEffect(tradePromises,
                 tradeEffect(v3in, routes, routesLoading, quotesResults', v3result).tradePromise)
  /\ UNCHANGED <<v3in, routes, routesLoading, callParams, calldataPromises, inputChanges,
                 v3mounted>>

\* createUncheckedTrade answers with the trade: unless canceled,
\* setResult(VALID)
TradeCreated(p) ==
  /\ p \in tradePromises
  /\ tradePromises' = tradePromises \ {p}
  /\ IF ~IsSome(resolved(p, [data |-> p.payload]))
       THEN UNCHANGED v3result
       ELSE v3result' = [ state |-> VALID,
                          trade |-> Some(Get(resolved(p, [data |-> p.payload])).data) ]
  /\ UNCHANGED <<v3in, routes, routesLoading, callParams, calldataPromises,
                 quotesResults, inputChanges, v3mounted>>

\* createUncheckedTrade answers with an error: it is logged, no result is set
TradeFailed(p) ==
  /\ p \in tradePromises
  /\ tradePromises' = tradePromises \ {p}
  /\ UNCHANGED <<v3in, routes, routesLoading, callParams, calldataPromises,
                 quotesResults, v3result, inputChanges, v3mounted>>

\* the component goes away: the cleanups of the effects cancel what the refs
\* hold (a run that returned no cleanup had canceled it already)
V3Unmount ==
  /\ v3mounted
  /\ v3mounted' = FALSE
  /\ calldataPromises' = cancelCurrent(calldataPromises)
  /\ tradePromises' = cancelCurrent(tradePromises)
  /\ UNCHANGED <<v3in, routes, routesLoading, callParams, quotesResults, v3result,
                 inputChanges>>

V3TradeInit == V3Init /\ SwapIdle /\ CmpIdle /\ UtilIdle /\ PermitIdle /\ HooksIdle

V3TradeNext ==
  \/ \E tradeType \in {EXACT_INPUT, EXACT_OUTPUT} :
       SetTradeType(tradeType) /\ UNCHANGED notV3Vars
  \/ \E amount \in {None} \cup {Some(a) : a \in AmountsSpecified} :
       SetAmountSpecified(amount) /\ UNCHANGED notV3Vars
  \/ \E currency \in {None} \cup {Some(c) : c \in V3Currencies} :
       SetOtherCurrency(currency) /\ UNCHANGED notV3Vars
  \/ \E rts \in RouteLists, rl \in BOOLEAN : SetRoutes(rts, rl) /\ UNCHANGED notV3Vars
  \/ \E p \in calldataPromises, quoter \in BOOLEAN :
       \E failed \in SUBSET { p.payload.routes[k].id : k \in 1..Len(p.payload.routes) } :
         CalldataResolved(p, failed, quoter) /\ UNCHANGED notV3Vars
  \/ \E k \in 1..Len(quotesResults), amount \in {None} \cup {Some(q) : q \in QuoteAmounts} :
       QuoteResolved(k, amount) /\ UNCHANGED notV3Vars
  \/ \E p \in tradePromises : TradeCreated(p) /\ UNCHANGED notV3Vars
  \/ \E p \in tradePromises : TradeFailed(p) /\ UNCHANGED notV3Vars
  \/ V3Unmount /\ UNCHANGED notV3Vars

V3TradeSpec == V3TradeInit /\ [][V3TradeNext]_vars

\* every wrapper invocation and every call of the quoter that is outstanding
\* gets its answer
V3TradeFairSpec ==
  /\ V3TradeSpec
  /\ WF_vars(\E p \in calldataPromises, quoter \in BOOLEAN :
               \E failed \in SUBSET { p.payload.routes[k].id : k \in 1..Len(p.payload.routes) } :
                 CalldataResolved(p, failed, quoter) /\ UNCHANGED notV3Vars)
  /\ WF_vars(\E k \in 1..Len(quotesResults),
                amount \in {None} \cup {Some(q) : q \in QuoteAmounts} :
               QuoteResolved(k, amount) /\ UNCHANGED notV3Vars)
  /\ WF_vars(\E p \in tradePromises :
               (TradeCreated(p) \/ TradeFailed(p)) /\ UNCHANGED notV3Vars)

(* ------------------------------------------------------------------ *)
(* Properties of useClientSideV3Trade                                  *)
(* ------------------------------------------------------------------ *)

\* the quote at index k has an amount of the kind the trade type asks for
Usable(k) ==
  /\ IsSome(quotesResults[k].result)
  /\ Get(quotesResults[k].result).kind
       = (IF v3in.tradeType = EXACT_INPUT THEN "amountOut" ELSE "amountIn")

QuotedAmount(k) == Get(quotesResults[k].result).amount

\* quote j is strictly better than quote k: more out, or less in
StrictlyBetter(j, k) ==
  IF v3in.tradeType = EXACT_INPUT THEN QuotedAmount(j) > QuotedAmount(k)
                                  ELSE QuotedAmount(j) < QuotedAmount(k)

\* the call data, and so the quotes, are those of the current routes, in order
Aligned ==
  /\ Len(callParams) = Len(routes)
  /\ \A k \in 1..Len(routes) : callParams[k].route = routes[k].id

\* C28: the route a trade is created for is a route with a usable quote
\* that no usable quote is strictly better than (most out under EXACT_INPUT,
\* least in under EXACT_OUTPUT), the earliest such route, and the trade has
\* the specified amount on one side and that quote on the other.
C28_BestQuotedRouteChosen ==
  tradePromise # None =>
    \E k \in 1..Len(quotesResults) :
      /\ Usable(k)
      /\ callParams[k].route = Get(tradePromise).route.id
      /\ \A j \in 1..Len(quotesResults) : Usable(j) => ~StrictlyBetter(j, k)
      /\ \A j \in 1..(k - 1) : Usable(j) => StrictlyBetter(k, j)
      /\ IF v3in.tradeType = EXACT_INPUT
           THEN /\ Get(tradePromise).inputAmount = Get(v3in.amountSpecified)
                /\ Get(tradePromise).outputAmount.quotient = QuotedAmount(k)
           ELSE /\ Get(tradePromise).outputAmount = Get(v3in.amountSpecified)
                /\ Get(tradePromise).inputAmount.quotient = QuotedAmount(k)

\* both currencies and the amount are defined, the currencies differ,
\* neither routes nor quotes are loading, and no quote is usable
NothingQuoted ==
  /\ IsSome(v3in.amountSpecified)
  /\ IsSome(v3in.otherCurrency)
  /\ Get(v3in.amountSpecified).currency # Get(v3in.otherCurrency)
  /\ ~routesLoading
  /\ \A k \in 1..Len(quotesResults) : ~quotesResults[k].loading /\ ~Usable(k)

\* C29 (as stated): with both currencies and the amount defined and
\* distinct, nothing loading and no usable quote, NO_ROUTE_FOUND is
\* reported with an undefined trade.
C29_NoQuoteIsNoRoute ==
  NothingQuoted =>
    /\ v3result = [state |-> NO_ROUTE_FOUND, trade |-> None]
    /\ tradePromise = None

\* C29 (amended): the same, provided every call of the quoter is valid; with
\* a call that is not valid INVALID is reported, with an undefined trade.
C29_NoQuoteOfValidCallsIsNoRoute ==
  NothingQuoted =>
    /\ tradePromise = None
    /\ v3result.trade = None
    /\ (\A k \in 1..Len(quotesResults) : quotesResults[k].valid)
         => v3result.state = NO_ROUTE_FOUND
    /\ (\E k \in 1..Len(quotesResults) : ~quotesResults[k].valid)
         => v3result.state = INVALID

\* the quoter has answered for two routes, both times without a result
C29_Witness ==
  /\ NothingQuoted
  /\ Len(quotesResults) = 2
  /\ \A k \in 1..Len(quotesResults) : quotesResults[k].valid
  /\ v3result.state = NO_ROUTE_FOUND

\* the endpoints of a trade are the wrapped currencies now asked for
EndpointsMatch(trade) ==
  /\ IsSome(currencyIn(v3in)) /\ IsSome(currencyOut(v3in))
  /\ trade.route.input = Wrapped(Get(currencyIn(v3in)))
  /\ trade.route.output = Wrapped(Get(currencyOut(v3in)))
  /\ trade.inputAmount.currency = Get(currencyIn(v3in))
  /\ trade.outputAmount.currency = Get(currencyOut(v3in))

\* C30: a trade is asked for only with a route whose wrapped endpoints are
\* the currencies now requested, VALID is set only with such a trade, and
\* while the amount or one of the currencies is undefined no trade is asked
\* for and INVALID with an undefined trade is reported.
C30_StaleEndpointsRejected ==
  /\ [](tradePromise # None => EndpointsMatch(Get(tradePromise)))
  /\ [][ (v3result' # v3result /\ v3result'.state = VALID) =>
            /\ v3result'.trade = tradePromise
            /\ EndpointsMatch(Get(tradePromise)) ]_vars
  /\ []((v3result.state # "unmounted"
          /\ (~IsSome(v3in.amountSpecified) \/ ~IsSome(v3in.otherCurrency))) =>
          /\ v3result = [state |-> INVALID, trade |-> None]
          /\ tradePromise = None)

\* the best route of the quotes runs from DAI to WETH while ETH to DAI is
\* asked for: no trade is asked for
C30_Witness ==
  /\ ~V3Invalid(v3in, quotesResults)
  /\ ~V3Loading(routesLoading, quotesResults)
  /\ ~NoRouteFound(bestOf(v3in, routes, quotesResults))
  /\ Get(bestOf(v3in, routes, quotesResults).bestRoute).input
       # Wrapped(Get(currencyIn(v3in)))
  /\ tradePromise = None

\* the amount a trade was asked for with, and the amount it has from a quote
SpecifiedOf(trade) ==
  IF trade.tradeType = EXACT_INPUT THEN trade.inputAmount ELSE trade.outputAmount

QuotedOf(trade) ==
  IF trade.tradeType = EXACT_INPUT THEN trade.outputAmount.quotient
                                   ELSE trade.inputAmount.quotient

\* C34 (as stated): a trade is built only from the specified amount and a
\* quote computed for that amount, never from the new amount and a quote
\* computed for the previous one.
C34_QuoteOfTheTradesAmount ==
  tradePromise # None =>
    \E k \in 1..Len(quotesResults) :
      /\ Usable(k)
      /\ QuotedAmount(k) = QuotedOf(Get(tradePromise))
      /\ callParams[k].amount = SpecifiedOf(Get(tradePromise))

\* no usable quote is strictly better than the quote at index k
Winning(k) ==
  /\ Usable(k)
  /\ \A j \in 1..Len(quotesResults) : Usable(j) => ~StrictlyBetter(j, k)

\* C35 (as stated): the route a trade is built with is the route the
\* winning quote was computed for, also when the wrapper gave no call data
\* for some routes and when the routes change while call data are computed.
C35_RouteOfTheWinningQuote ==
  tradePromise # None =>
    \E k \in 1..Len(quotesResults) :
      /\ Winning(k)
      /\ callParams[k].route = Get(tradePromise).route.id

\* the routes are loaded and are routes between the currencies asked for
RoutesServeInputs ==
  /\ ~routesLoading
  /\ \A k \in 1..Len(routes) :
       (IsSome(currencyIn(v3in)) /\ IsSome(currencyOut(v3in))) =>
         /\ routes[k].input = Wrapped(Get(currencyIn(v3in)))
         /\ routes[k].output = Wrapped(Get(currencyOut(v3in)))

\* the result is one computed for the inputs as they are
ResultOfInputs ==
  /\ v3result.state \in {VALID, INVALID, NO_ROUTE_FOUND}
  /\ v3result.state = VALID =>
       v3result.trade =
         tradeEffect(v3in, routes, routesLoading, quotesResults, v3result).tradePromise

\* C39 (as stated): once the inputs have stopped changing and every wrapper
\* invocation and quote call has its answer, the hook reports, and goes on
\* reporting, VALID with a trade for the final inputs, INVALID or
\* NO_ROUTE_FOUND.
C39_Settles == <>[]((v3mounted /\ RoutesServeInputs) => ResultOfInputs)

(* ------------------------------------------------------------------ *)
(* useRoutingAPITrade: renders, the effect, loadTrade                  *)
(* ------------------------------------------------------------------ *)

notRoutingVars == <<approveVars, headerVars, mintVars, notHookVars>>

notApproveVars == <<routingVars, headerVars, mintVars, notHookVars>>

notHeaderVars == <<routingVars, approveVars, mintVars, notHookVars>>

notMintVars == <<routingVars, approveVars, headerVars, notHookVars>>

\* the state the hook starts with
InitialTradeResult == [state |-> LOADING, trade |-> None, gasUseEstimateUSD |-> None]

\* the first render and its effect
RoutingInit ==
  /\ rtIn \in RoutingInputs
  /\ rtQuery \in QueryResults(useRoutingAPIArguments(rtIn))
  /\ localBlockNumber \in LocalBlockNumbers
  /\ tradeResult = routingEffect(rtIn, rtQuery, localBlockNumber, InitialTradeResult).result
  /\ rtPromises =
       runEffect({}, routingEffect(rtIn, rtQuery, localBlockNumber,
                                   InitialTradeResult).tradePromise)
  /\ rtMounted = TRUE

\* a render with changed inputs, query result or block number: the effect
\* runs if one of its dependencies changed
RoutingRender(in, q, localBlock) ==
  /\ rtMounted
  /\ hookChanges < MaxHookChanges
  /\ <<in, q, localBlock>> # <<rtIn, rtQuery, localBlockNumber>>
  /\ rtIn' = in
  /\ rtQuery' = q
  /\ localBlockNumber' = localBlock
  /\ hookChanges' = hookChanges + 1
  /\ IF routingDeps(in, q, localBlock) # routingDeps(rtIn, rtQuery, localBlockNumber)
       THEN /\ tradeResult' = routingEffect(in, q, localBlock, tradeResult).result
            /\ rtPromises' =
                 runEffect(rtPromises, routingEffect(in, q, localBlock, tradeResult).tradePromise)
       ELSE UNCHANGED <<tradeResult, rtPromises>>
  /\ UNCHANGED rtMounted

SetRoutingInputs(in) ==
  RoutingRender(in, QueryFor(rtQuery, useRoutingAPIArguments(in)), localBlockNumber)

QueryAnswers(q) ==
  /\ q \in QueryResults(useRoutingAPIArguments(rtIn))
  /\ RoutingRender(rtIn, q, localBlockNumber)

BlockNumberChanges(localBlock) == RoutingRender(rtIn, rtQuery, localBlock)

\* loadTrade answers: unless canceled, setTradeResult
LoadTradeResolved(p, route, transformed) ==
  /\ p \in rtPromises
  /\ rtPromises' = rtPromises \ {p}
  /\ IF ~IsSome(resolved(p, loadTrade(p.payload, route, transformed)))
       THEN UNCHANGED tradeResult
       ELSE tradeResult' = Get(resolved(p, loadTrade(p.payload, route, transformed)))
  /\ UNCHANGED <<rtIn, rtQuery, localBlockNumber, rtMounted, hookChanges>>

\* the component goes away: the cleanup of the effect
RoutingUnmount ==
  /\ rtMounted
  /\ rtMounted' = FALSE
  /\ rtPromises' = cancelCurrent(rtPromises)
  /\ UNCHANGED <<rtIn, rtQuery, localBlockNumber, tradeResult, hookChanges>>

RoutingSpecInit ==
  /\ RoutingInit /\ ApproveIdle /\ HeaderIdle /\ MintIdle /\ hookChanges = 0
  /\ SwapIdle /\ CmpIdle /\ UtilIdle /\ PermitIdle /\ V3Idle

RoutingNext ==
  \/ \E in \in RoutingInputs : SetRoutingInputs(in) /\ UNCHANGED notRoutingVars
  \/ \E q \in QueryResults(useRoutingAPIArguments(rtIn)) :
       QueryAnswers(q) /\ UNCHANGED notRoutingVars
  \/ \E localBlock \in LocalBlockNumbers :
       BlockNumberChanges(localBlock) /\ UNCHANGED notRoutingVars
  \/ \E p \in rtPromises, route \in ComputedRoutes, transformed \in TransformedTrades :
       LoadTradeResolved(p, route, transformed) /\ UNCHANGED notRoutingVars
  \/ RoutingUnmount /\ UNCHANGED notRoutingVars

RoutingSpec == RoutingSpecInit /\ [][RoutingNext]_vars

(* ------------------------------------------------------------------ *)
(* useERC20PermitFromTrade: renders, the effect, the wrapper           *)
(* ------------------------------------------------------------------ *)

\* the first render and its effect
ApproveInit ==
  /\ apIn \in ApproveInputs
  /\ amountToApprove = approveEffect(apIn, None).amountToApprove
  /\ apPromises = runEffect({}, approveEffect(apIn, None).maxInPromise)
  /\ apMounted = TRUE

\* a render with a changed trade or slippage: the effect runs
ApproveRender(in) ==
  /\ apMounted
  /\ hookChanges < MaxHookChanges
  /\ in # apIn
  /\ apIn' = in
  /\ hookChanges' = hookChanges + 1
  /\ amountToApprove' = approveEffect(in, amountToApprove).amountToApprove
  /\ apPromises' = runEffect(apPromises, approveEffect(in, amountToApprove).maxInPromise)
  /\ UNCHANGED apMounted

\* Uni_Module.tradeMaximumAmountIn answers, with the amount or with an error
\* (logged; the data is undefined): unless canceled, setAmountToApprove
MaxInResolved(p, error) ==
  /\ p \in apPromises
  /\ apPromises' = apPromises \ {p}
  /\ IF ~IsSome(resolved(p, [error |-> error, data |-> p.payload]))
       THEN UNCHANGED amountToApprove
       ELSE amountToApprove' =
              IF Get(resolved(p, [error |-> error, data |-> p.payload])).error
                THEN None
                ELSE Some(maxAmountInOf(Get(resolved(p, [ error |-> error,
                                                           data |-> p.payload ])).data))
  /\ UNCHANGED <<apIn, apMounted, hookChanges>>

\* the component goes away: the cleanup of the effect
ApproveUnmount ==
  /\ apMounted
  /\ apMounted' = FALSE
  /\ apPromises' = cancelCurrent(apPromises)
  /\ UNCHANGED <<apIn, amountToApprove, hookChanges>>

ApproveNext ==
  \/ \E in \in ApproveInputs : ApproveRender(in) /\ UNCHANGED notApproveVars
  \/ \E p \in apPromises, error \in BOOLEAN :
       MaxInResolved(p, error) /\ UNCHANGED notApproveVars
  \/ ApproveUnmount /\ UNCHANGED notApproveVars

(* ------------------------------------------------------------------ *)
(* SwapModalHeader: renders, the effect, the wrapper                   *)
(* ------------------------------------------------------------------ *)

\* the first render and its effect; the amount starts as ''
HeaderInit ==
  /\ hdIn \in HeaderInputs
  /\ hdAmount = <<>>
  /\ hdPromises = runEffect({}, Some(asyncAmount(hdIn)))
  /\ hdMounted = TRUE

\* a render with a changed trade or slippage: the effect runs
HeaderRender(in) ==
  /\ hdMounted
  /\ hookChanges < MaxHookChanges
  /\ in # hdIn
  /\ hdIn' = in
  /\ hookChanges' = hookChanges + 1
  /\ hdPromises' = runEffect(hdPromises, Some(asyncAmount(in)))
  /\ UNCHANGED <<hdAmount, hdMounted>>

\* asyncAmount answers, with the amount or (the wrapper having failed) with
\* undefined: unless canceled or undefined, setAmount
AmountResolved(p, error) ==
  /\ p \in hdPromises
  /\ hdPromises' = hdPromises \ {p}
  /\ IF error \/ ~IsSome(resolved(p, p.payload))
       THEN UNCHANGED hdAmount
       ELSE hdAmount' = amountToSignificant(Get(resolved(p, p.payload)), 6)
  /\ UNCHANGED <<hdIn, hdMounted, hookChanges>>

\* the component goes away: the cleanup of the effect
HeaderUnmount ==
  /\ hdMounted
  /\ hdMounted' = FALSE
  /\ hdPromises' = cancelCurrent(hdPromises)
  /\ UNCHANGED <<hdIn, hdAmount, hookChanges>>

HeaderNext ==
  \/ \E in \in HeaderInputs : HeaderRender(in) /\ UNCHANGED notHeaderVars
  \/ \E p \in hdPromises, error \in BOOLEAN :
       AmountResolved(p, error) /\ UNCHANGED notHeaderVars
  \/ HeaderUnmount /\ UNCHANGED notHeaderVars

(* ------------------------------------------------------------------ *)
(* useV3DerivedMintInfo: renders, the position effect, the wrapper     *)
(* ------------------------------------------------------------------ *)

\* the first render and its effect; the position starts undefined
MintInit ==
  /\ mintIn \in MintInputs
  /\ position = positionEffect(mintIn, None).position
  /\ positionPromises = runEffect({}, positionEffect(mintIn, None).positionPromise)
  /\ mintMounted = TRUE

\* a render with one input changed: the effect runs
MintRender(in) ==
  /\ mintMounted
  /\ hookChanges < MaxHookChanges
  /\ Cardinality({f \in DOMAIN in : in[f] # mintIn[f]}) = 1
  /\ mintIn' = in
  /\ hookChanges' = hookChanges + 1
  /\ position' = positionEffect(in, position).position
  /\ positionPromises' =
       runEffect(positionPromises, positionEffect(in, position).positionPromise)
  /\ UNCHANGED mintMounted

\* createPositionFromAmounts answers with the position: unless canceled,
\* setPosition(res.data)
PositionCreated(p) ==
  /\ p \in positionPromises
  /\ positionPromises' = positionPromises \ {p}
  /\ IF ~IsSome(resolved(p, [error |-> FALSE, data |-> p.payload]))
       THEN UNCHANGED position
       ELSE position' = Some(Get(resolved(p, [error |-> FALSE, data |-> p.payload])).data)
  /\ UNCHANGED <<mintIn, mintMounted, hookChanges>>

\* createPositionFromAmounts answers with an error: unless canceled, it is
\* logged and setPosition(undefined)
PositionFailed(p) ==
  /\ p \in positionPromises
  /\ positionPromises' = positionPromises \ {p}
  /\ IF ~IsSome(resolved(p, [error |-> TRUE, data |-> None]))
       THEN UNCHANGED position
       ELSE position' = None
  /\ UNCHANGED <<mintIn, mintMounted, hookChanges>>

\* the component goes away: the cleanup of the effect
MintUnmount ==
  /\ mintMounted
  /\ mintMounted' = FALSE
  /\ positionPromises' = cancelCurrent(positionPromises)
  /\ UNCHANGED <<mintIn, position, hookChanges>>

MintSpecInit ==
  /\ RoutingIdle /\ ApproveIdle /\ HeaderIdle /\ MintInit /\ hookChanges = 0
  /\ SwapIdle /\ CmpIdle /\ UtilIdle /\ PermitIdle /\ V3Idle

MintNext ==
  \/ \E in \in MintInputs : MintRender(in) /\ UNCHANGED notMintVars
  \/ \E p \in positionPromises : PositionCreated(p) /\ UNCHANGED notMintVars
  \/ \E p \in positionPromises : PositionFailed(p) /\ UNCHANGED notMintVars
  \/ MintUnmount /\ UNCHANGED notMintVars

MintSpec == MintSpecInit /\ [][MintNext]_vars

(* ------------------------------------------------------------------ *)
(* The cancelable derivations, one hook in use                         *)
(* ------------------------------------------------------------------ *)

DerivationsInit ==
  /\ SwapIdle /\ CmpIdle /\ UtilIdle /\ PermitIdle /\ MintIdle /\ hookChanges = 0
  /\ \/ V3Init /\ RoutingIdle /\ ApproveIdle /\ HeaderIdle
     \/ V3Idle /\ RoutingInit /\ ApproveIdle /\ HeaderIdle
     \/ V3Idle /\ RoutingIdle /\ ApproveInit /\ HeaderIdle
     \/ V3Idle /\ RoutingIdle /\ ApproveIdle /\ HeaderInit

DerivationsNext == V3TradeNext \/ RoutingNext \/ ApproveNext \/ HeaderNext

DerivationsSpec == DerivationsInit /\ [][DerivationsNext]_vars

(* ------------------------------------------------------------------ *)
(* Properties of useRoutingAPITrade                                    *)
(* ------------------------------------------------------------------ *)

\* the quote is at most 10 blocks behind the local block number, which is known
FreshAt(quote, localBlock) ==
  IsSome(localBlock) /\ Get(localBlock) - quote.blockNumber[2] <= 10

\* a derivation started by this step
StartedRouting == { p \in rtPromises' : p.current /\ ~p.canceled /\ p \notin rtPromises }

\* quoteResult is the data of the query exactly when the data is fresh
FreshOrDiscarded ==
  IF IsSome(rtQuery.data) /\ FreshAt(Get(rtQuery.data), localBlockNumber)
    THEN quoteResultOf(rtQuery, localBlockNumber) = rtQuery.data
    ELSE ~IsSome(quoteResultOf(rtQuery, localBlockNumber))

\* C32: useFreshData returns the quote if and only if the local block number
\* is known and is at most 10 blocks ahead of the quote's block number, and
\* every trade derivation is started with a quote that is fresh at that time
C32_FreshnessBound ==
  /\ []FreshOrDiscarded
  /\ [][\A p \in StartedRouting :
          /\ IsSome(p.payload.quoteResult)
          /\ FreshAt(Get(p.payload.quoteResult), localBlockNumber')]_vars

\* a derivation in flight, started with a quote that is exactly 10 blocks old
C32_Witness ==
  /\ localBlockNumber = Some(110)
  /\ hookChanges > 0
  /\ \E p \in rtPromises : p.current /\ ~p.canceled

\* the query is loading and there is no fresh quote
LoadingWithoutQuote ==
  rtQuery.isLoading /\ ~IsSome(quoteResultOf(rtQuery, localBlockNumber))

\* the conditions of NO_ROUTE_FOUND in the effect
NoRouteConditions ==
  \/ rtQuery.isError
  \/ ~IsSome(quoteResultOf(rtQuery, localBlockNumber))
  \/ ~IsSome(useRoutingAPIArguments(rtIn))

\* what the claim says of every state but LOADING
ClassifiedButLoading ==
  /\ ~IsSome(currencyIn(rtIn)) \/ ~IsSome(currencyOut(rtIn))
       => tradeResult.state = INVALID
  /\ IsSome(currencyIn(rtIn)) /\ IsSome(currencyOut(rtIn)) /\ ~LoadingWithoutQuote
       /\ NoRouteConditions
       => tradeResult.state = NO_ROUTE_FOUND
  /\ tradeResult.state # VALID => tradeResult.trade = None
  /\ tradeResult.state = VALID =>
       /\ IsSome(tradeResult.trade)
       /\ Get(tradeResult.trade).quote \in GetQuoteResults

\* the claim as stated, of the state the hook returns: LOADING only when the
\* query is loading and there is no fresh quote
C38_StateClassification ==
  rtMounted =>
    /\ ClassifiedButLoading
    /\ tradeResult.state = LOADING => LoadingWithoutQuote

\* loadTrade answers for a derivation that was not canceled: the result is
\* the one of the routes computed and of their transformation
ResolvedAsClassified ==
  \A p \in rtPromises, route \in ComputedRoutes, transformed \in TransformedTrades :
    LoadTradeResolved(p, route, transformed) /\ ~p.canceled =>
      /\ route \in {"undefined", "empty"} => tradeResult'.state = NO_ROUTE_FOUND
      /\ route = "routes" /\ transformed \in {"undefined", "throws"} =>
           tradeResult'.state = INVALID
      /\ route = "routes" /\ transformed = "trade" =>
           /\ tradeResult'.state = VALID
           /\ IsSome(p.payload.quoteResult)
           /\ Get(tradeResult'.trade).quote = Get(p.payload.quoteResult)
           /\ FreshAt(Get(p.payload.quoteResult), localBlockNumber)

\* C38: the state is INVALID when a currency is undefined; LOADING only when
\* the query is loading without a fresh quote or while the trade derivation
\* started by the effect is in flight; NO_ROUTE_FOUND when, past these, the
\* query errored, there is no fresh quote or no query arguments, or the
\* routes computed are empty; INVALID when the transformation fails; VALID
\* only with a trade built from a fresh quote; the trade is undefined in
\* every state but VALID
C38_StateClassificationInFlight ==
  /\ [](rtMounted =>
          /\ ClassifiedButLoading
          /\ tradeResult.state = LOADING =>
               LoadingWithoutQuote \/ IsSome(CurrentOf(rtPromises)))
  /\ [][ResolvedAsClassified]_vars

\* the query has answered with a fresh quote and the trade is being derived:
\* the state is still LOADING
C38_Witness ==
  /\ rtMounted
  /\ tradeResult.state = LOADING
  /\ ~rtQuery.isLoading
  /\ IsSome(quoteResultOf(rtQuery, localBlockNumber))
  /\ IsSome(CurrentOf(rtPromises))

(* ------------------------------------------------------------------ *)
(* Properties of the cancelable derivations                            *)
(* ------------------------------------------------------------------ *)

\* the derivations a step takes out of flight without their being canceled
Answered(promises, promisesAfter) ==
  { p \in promises : ~p.canceled /\ p \notin promisesAfter }

\* every derivation in flight that has not been canceled is the one the last
\* run of the effect started, for the inputs of the latest render
OnlyForLatestInputs ==
  /\ \A p \in Uncanceled(tradePromises) :
       Some(p.payload) =
         tradeEffect(v3in, routes, routesLoading, quotesResults, v3result).tradePromise
  /\ \A p \in Uncanceled(rtPromises) :
       Some(p.payload) =
         routingEffect(rtIn, rtQuery, localBlockNumber, tradeResult).tradePromise
  /\ \A p \in Uncanceled(apPromises) :
       Some(p.payload) = approveEffect(apIn, amountToApprove).maxInPromise

\* a state written by a derivation is written by one that was not canceled,
\* started for the inputs of the latest render
WrittenForLatestInputs ==
  /\ v3result' # v3result /\ v3result'.state = VALID =>
       \E p \in Answered(tradePromises, tradePromises') :
         /\ v3result'.trade = Some(p.payload)
         /\ Some(p.payload) =
              tradeEffect(v3in, routes, routesLoading, quotesResults, v3result).tradePromise
  /\ hookChanges' = hookChanges /\ tradeResult' # tradeResult =>
       \E p \in Answered(rtPromises, rtPromises') :
         /\ \E route \in ComputedRoutes, transformed \in TransformedTrades :
              tradeResult' = loadTrade(p.payload, route, transformed)
         /\ Some(p.payload) =
              routingEffect(rtIn, rtQuery, localBlockNumber, tradeResult).tradePromise
  /\ hookChanges' = hookChanges /\ amountToApprove' # amountToApprove =>
       \E p \in Answered(apPromises, apPromises') :
         /\ amountToApprove' \in {None, Some(maxAmountInOf(p.payload))}
         /\ Some(p.payload) = approveEffect(apIn, amountToApprove).maxInPromise

\* C31: last-input-wins in useClientSideV3Trade, useRoutingAPITrade and
\* useERC20PermitFromTrade: a derivation in flight for superseded inputs is
\* canceled, and the trade result and the amount to approve are written only
\* by the derivation started for the inputs of the latest render
C31_LastInputWins == []OnlyForLatestInputs /\ [][WrittenForLatestInputs]_vars

\* the inputs changed while a derivation was in flight: it is canceled and
\* still in flight, the derivation for the new inputs is in flight as well
C31_Witness ==
  \E stale \in rtPromises, latest \in rtPromises :
    /\ stale.canceled
    /\ ~latest.canceled
    /\ stale.payload # latest.payload

\* a hook in use holds at most one derivation that has not been canceled in
\* each of its refs; one that is not in use holds none
AtMostOneInFlight ==
  /\ \A slot \in {tradePromises, calldataPromises} :
       Cardinality(Uncanceled(slot)) <= (IF v3mounted THEN 1 ELSE 0)
  /\ Cardinality(Uncanceled(rtPromises)) <= (IF rtMounted THEN 1 ELSE 0)
  /\ Cardinality(Uncanceled(apPromises)) <= (IF apMounted THEN 1 ELSE 0)
  /\ Cardinality(Uncanceled(hdPromises)) <= (IF hdMounted THEN 1 ELSE 0)

\* once the effects are cleaned up, no state of the hook is written
NoWriteAfterCleanup ==
  /\ ~v3mounted => UNCHANGED <<callParams, v3result>>
  /\ ~rtMounted => UNCHANGED tradeResult
  /\ ~apMounted => UNCHANGED amountToApprove
  /\ ~hdMounted => UNCHANGED hdAmount

\* C33: each cancelable slot (trade, calldata, amount to approve, displayed
\* amount) holds at most one derivation in flight that has not been
\* canceled, and after the cleanup of the effects no derivation writes state
C33_OneWriterPerSlot == []AtMostOneInFlight /\ [][NoWriteAfterCleanup]_vars

\* the header has gone away while its derivation was in flight: the
\* derivation is canceled, its answer is still to come
C33_Witness ==
  /\ ~hdMounted
  /\ \E p \in hdPromises : p.canceled /\ p.payload = asyncAmount(hdIn)

(* ------------------------------------------------------------------ *)
(* Properties of useV3DerivedMintInfo                                  *)
(* ------------------------------------------------------------------ *)

\* a pool, a token or a tick is missing, or the lower tick is not below the
\* upper one
NoPositionInputs ==
  \/ ~IsSome(mintIn.poolForPosition)
  \/ ~IsSome(mintIn.tokenA)
  \/ ~IsSome(mintIn.tokenB)
  \/ ~IsSome(mintIn.tickLower)
  \/ ~IsSome(mintIn.tickUpper)
  \/ Get(mintIn.tickLower) >= Get(mintIn.tickUpper)

\* an amount the position needs is missing
MissingAmount == ~IsSome(amount0(mintIn)) \/ ~IsSome(amount1(mintIn))

\* without the inputs of a position there is no position, and a derivation
\* that has not been canceled is the one of the inputs of the latest render
PositionOfLatestInputs ==
  /\ NoPositionInputs \/ MissingAmount =>
       position = None /\ Uncanceled(positionPromises) = {}
  /\ \A p \in Uncanceled(positionPromises) :
       Some(p.payload) = positionEffect(mintIn, position).positionPromise

\* the answers of createPositionFromAmounts: a canceled derivation sets
\* nothing, an error sets the position to undefined, a position is set only
\* by the derivation of the inputs of the latest render
PositionAnswers ==
  /\ hookChanges' = hookChanges /\ position' # position =>
       \E p \in Answered(positionPromises, positionPromises') :
         /\ position' \in {None, Some(p.payload)}
         /\ Some(p.payload) = positionEffect(mintIn, position).positionPromise
  /\ \A p \in positionPromises :
       /\ PositionFailed(p) /\ ~p.canceled => position' = None
       /\ (PositionFailed(p) \/ PositionCreated(p)) /\ p.canceled => position' = position

\* C40: once the position effect has run for inputs with an invalid range, a
\* missing tick, pool, token or amount, the position is undefined; a
\* derivation started for earlier inputs is canceled and sets no position;
\* a wrapper error sets the position to undefined
C40_MintPosition == []PositionOfLatestInputs /\ [][PositionAnswers]_vars

\* the ticks were changed to an invalid range while a position was being
\* created: no position, the derivation canceled and still in flight
C40_Witness ==
  /\ IsSome(mintIn.tickLower) /\ IsSome(mintIn.tickUpper)
  /\ Get(mintIn.tickLower) >= Get(mintIn.tickUpper)
  /\ position = None
  /\ \E p \in positionPromises : p.canceled

====
